---- MODULE Spec2Model ----
(***************************************************************************)
(* Multipart uploads of koofr/goamz, package s3 (src/s3/multi.go).         *)
(*                                                                         *)
(* One call of one public operation is modelled at a time: the caller      *)
(* picks the operation and its arguments, the operation runs its retry     *)
(* loop against a service whose responses are arbitrary, and returns.      *)
(* Two calls that run at once on one handle, and the request signer of     *)
(* src/s3/sign_v4.go, have specifications of their own further down.       *)
(***************************************************************************)
EXTENDS Integers, Sequences, FiniteSets, Bags

\* ------------------------------------------------------------- bounds
\* Largest attempt budget of the attempt strategy (attempts per page/request).
MaxAttempts == 2
\* Largest part number used by the caller or listed by the service.
MaxPartN == 2
\* Largest number of parts in a caller's list, and of items in a whole listing.
MaxParts == 2
\* Largest number of pages of one listing.
MaxPages == 2
\* Largest number of passes of Sign over one request.
MaxSigns == 2
\* Largest number of values of one header.
MaxValues == 2
\* Largest number of name=value pairs of a query.
MaxPairs == 3

\* ------------------------------------------------------------- value domains
ETags == {"a", "b"}
Sizes == {5}
PartNumbers == 1 .. MaxPartN
Parts == [N : PartNumbers, ETag : ETags, Size : Sizes]
PartSizes == {1, 2}
Keys == {"k", "kx"}
UploadIds == {"u1", "u2"}
\* The parts the service lists: part 1 has been uploaded twice, with two ETags.
ListedParts == {p \in Parts : p.N = 1 \/ p.ETag = "a"}

SeqsUpTo(S, n) == UNION {[1 .. k -> S] : k \in 0 .. n}

\* No error (Go's nil error).
Nil == "nil"
\* Error codes the service, the transport or the payload source can report.
ServiceErrors == {"InternalError", "NoSuchUpload", "AccessDenied"}

VARIABLES
    op,        \* the public operation the caller invoked ("none" before the call)
    fn,        \* the function whose retry loop is running (op, or a callee of Multi)
    pc,        \* position in fn: "idle", "loop", "body", "after", "done", "panic"
    arg,       \* the arguments of the call
    m,         \* the Multi handle the call is made on
    strategy,  \* the package's attempt strategy: attempts per Attempt
    attempt,   \* the current Attempt: how many times its Next returned true
    marker,    \* continuation markers held in params (<<>>: none yet)
    acc,       \* items accumulated over pages (parts, multis)
    prefixes,  \* common prefixes accumulated over pages (ListMulti)
    data,      \* the marshalled manifest (Complete)
    pos,       \* offset of the payload source r (PutPartHash)
    err,       \* the err variable of InitMulti, kept across its iterations
    resp,      \* the response of the current iteration
    reqs,      \* history: the requests sent, in order
    fetched,   \* history: items of the pages fetched successfully, in order
    hist,      \* history: counters of iterations, pages and failures of fn
    ret,       \* what the function returned last
    req,       \* the http.Request handed to the V4Signer
    now,       \* what time.Now() returns
    sig,       \* history: the locals of the last pass of Sign, and the passes made
    out,       \* history: the last call of a canonicalization function
    calls,     \* the locals of each of two calls that run concurrently on m
    upload     \* the state of the upload of m at the service

\* The variables of the signer: no multipart operation touches them itself
\* (signing is done underneath S3.query and S3.prepare).
signerVars == <<req, now, sig, out>>
\* The variables of the multipart operations.
multiVars == <<op, fn, pc, arg, m, strategy, attempt, marker, acc, prefixes, data,
               pos, err, resp, reqs, fetched, hist, ret>>

\* The variables of the calls that run concurrently on one handle.
concVars == <<calls, upload>>

vars == <<op, fn, pc, arg, m, strategy, attempt, marker, acc, prefixes, data, pos,
          err, resp, reqs, fetched, hist, ret, req, now, sig, out, calls, upload>>

\* ------------------------------------------------------------- collaborators
\* attempts.Start(): a fresh Attempt.
AttemptStart == 0
\* attempt.Next(): whether another attempt may be made (it is then counted).
AttemptNext(a) == a < strategy
\* attempt.HasNext(): whether Next would return true.
AttemptHasNext(a) == a < strategy
\* shouldRetry(err)
shouldRetry(e) == e \in {"InternalError", "NoSuchUpload"}
\* hasCode(err, code)
hasCode(e, code) == e = code

\* ------------------------------------------------------------- pure helpers
RECURSIVE SeqToBag(_)
SeqToBag(s) ==
    IF s = <<>> THEN EmptyBag ELSE SeqToBag(Tail(s)) (+) SetToBag({Head(s)})

Injections(n) == {f \in [1 .. n -> 1 .. n] : \A i, j \in 1 .. n : f[i] = f[j] => i = j}
PermsOf(s) == {[i \in 1 .. Len(s) |-> s[f[i]]] : f \in Injections(Len(s))}

\* func (s partSlice) Less(i, j int) bool
partSliceLess(s, i, j) == s[i].N < s[j].N
\* func (p completeParts) Less(i, j int) bool
completePartsLess(p, i, j) == p[i].PartNumber < p[j].PartNumber

\* sort.Sort(parts): parts reordered so that no element is Less than one before
\* it. sort.Sort is not stable: every such order of equal elements is possible.
SortParts(s) ==
    {t \in PermsOf(s) : \A i, j \in 1 .. Len(t) : i < j => ~partSliceLess(t, j, i)}

SortCompletePartsNone(p) == {p}
\* sort.Sort(c.Parts)
SortCompleteParts(p) ==
    {t \in PermsOf(p) :
        \A i, j \in 1 .. Len(t) : i < j => ~completePartsLess(t, j, i)}

ToCompletePartsDropLast(ps) ==
    [i \in 1 .. Len(ps) - 1 |-> [PartNumber |-> ps[i].N, ETag |-> ps[i].ETag]]
\* for _, p := range parts { c.Parts = append(c.Parts, completePart{p.N, p.ETag}) }
ToCompleteParts(ps) ==
    [i \in 1 .. Len(ps) |-> [PartNumber |-> ps[i].N, ETag |-> ps[i].ETag]]

\* xml.Marshal(&c): one Part element per entry, holding its PartNumber element
\* and then its ETag element, in the order of c.Parts.
Marshal(c) == [i \in 1 .. Len(c) |-> <<"Part", c[i].PartNumber, c[i].ETag>>]

\* A request as it is handed to the transport.
\* params: uploads (present or not), uploadId, prefix and delimiter, the markers,
\* partNumber (0: absent); payload: its bytes and the offset it is read from.
Request(method, path, uploads, uploadId, prefix, mk, partNumber, body, offset) ==
    [method |-> method, path |-> path, uploads |-> uploads, uploadId |-> uploadId,
     prefix |-> prefix, marker |-> mk, partNumber |-> partNumber, body |-> body,
     offset |-> offset]

\* A response as the transport hands it back: the HTTP status, the error code
\* its body encodes (Nil: none) and the ETag header.
Response(status, code, etag) == [status |-> status, code |-> code, etag |-> etag]
NoResp == Response(0, Nil, "")
\* The responses with an error: an error status, or status 200 with an error body.
ErrorResponses == {Response(500, c, "") : c \in ServiceErrors}
LateErrorResponses == {Response(200, c, "") : c \in ServiceErrors}

\* S3.query(req, resp): the error of the response, nil when it has none. The
\* body is parsed for an error whatever the status is.
query(r) == r.code

NoHist == [iters |-> 0, pages |-> 0, curFails |-> 0, retried |-> 0, listErr |-> "none"]
Return(val, pfx, e) == [val |-> val, prefixes |-> pfx, err |-> e]
NoRet == Return(<<>>, <<>>, Nil)
\* Part{}
ZeroPart == [N |-> 0, ETag |-> "", Size |-> 0]
BucketName == "sample"

\* ------------------------------------------------------------- initial state
\* No request is being signed, and no canonicalization function has been called.
NoRequest == [Method |-> <<>>, Host |-> <<>>, Path |-> <<>>, RawQuery |-> <<>>,
              Header |-> <<>>, Form |-> <<>>]
NoSig == [calls |-> 0]
NoOut == [fn |-> "none"]
\* The two callers that may run an operation on m at the same time.
CallIds == {"first", "second"}
\* The locals of a call that has not started: the function called, the
\* position in it, its arguments n and partSize, its marshalled manifest, its
\* Attempt, the offset of its payload source, the request it sent last, and
\* its response and return.
IdleCall ==
    [fn |-> "none", pc |-> "idle", n |-> 0, partSize |-> 0, data |-> <<>>,
     attempt |-> AttemptStart, pos |-> 0, sent |-> <<>>, resp |-> NoResp, ret |-> NoRet]

\* No multipart operation is running.
Idle ==
    /\ op = "none"
    /\ fn = "none"
    /\ pc = "idle"
    /\ arg = [none |-> TRUE]
    /\ m = [Bucket |-> "sample", Key |-> "multi", UploadId |-> "u0"]
    /\ attempt = AttemptStart
    /\ marker = <<>>
    /\ acc = <<>>
    /\ prefixes = <<>>
    /\ data = <<>>
    /\ pos = 0
    /\ err = Nil
    /\ resp = NoResp
    /\ reqs = <<>>
    /\ fetched = <<>>
    /\ hist = NoHist
    /\ ret = NoRet
    /\ calls = [c \in CallIds |-> IdleCall]
    /\ upload = "open"

Init ==
    /\ Idle
    /\ strategy \in 1 .. MaxAttempts
    /\ req = NoRequest
    /\ now = 0
    /\ sig = NoSig
    /\ out = NoOut

\* ------------------------------------------------------------- the retry loop
\* for attempt := attempts.Start(); attempt.Next(); { ... } panic("unreachable")
\* The loop head of ListMulti, PutPartHash, ListParts, Complete and Abort.
LoopNext ==
    /\ pc = "loop"
    /\ fn \in {"ListMulti", "PutPartHash", "ListParts", "Complete", "Abort"}
    /\ IF AttemptNext(attempt)
       THEN /\ attempt' = attempt + 1
            /\ pc' = "body"
            /\ hist' = [hist EXCEPT !.iters = @ + 1]
            /\ resp' = NoResp
       ELSE /\ pc' = "panic"
            /\ UNCHANGED <<attempt, hist, resp>>
    /\ UNCHANGED <<signerVars, concVars>>
    /\ UNCHANGED <<op, fn, arg, m, strategy, marker, acc, prefixes, data, pos, err,
                   reqs, fetched, ret>>

RetriesAlways(e) == shouldRetry(e)
RetriesInverted(e) == ~shouldRetry(e) /\ e # Nil /\ AttemptHasNext(attempt)
\* if shouldRetry(err) && attempt.HasNext() { continue }
Retries(e) == shouldRetry(e) /\ AttemptHasNext(attempt)

\* The marker the service gives with a truncated page: where the next page
\* starts, which differs from page to page.
NextMarker == hist.pages + 1

\* continue
Continue ==
    /\ pc' = "loop"
    /\ hist' = [hist EXCEPT !.curFails = @ + 1, !.retried = @ + 1]

\* Entry of an operation: its loop starts with a fresh Attempt.
Enter(o, f, a) ==
    /\ pc = "idle"
    /\ op' = o
    /\ fn' = f
    /\ arg' = a
    /\ pc' = "loop"
    /\ attempt' = AttemptStart

\* ------------------------------------------------------------- Complete
CompleteRequest ==
    Request("POST", m.Key, FALSE, m.UploadId, "", <<>>, 0, data, 0)

\* Complete, up to its loop: the manifest is built, sorted and marshalled once.
CompleteCall ==
    /\ \E ps \in SeqsUpTo(Parts, MaxParts) :
         /\ Enter("Complete", "Complete", [parts |-> ps])
         /\ \E c \in SortCompleteParts(ToCompleteParts(ps)) : data' = Marshal(c)
    /\ UNCHANGED <<signerVars, concVars>>
    /\ UNCHANGED <<m, strategy, marker, acc, prefixes, pos, err, resp, reqs, fetched,
                   hist, ret>>

CompleteOutcomeSwallow(e) ==
    IF Retries(e)
    THEN Continue /\ UNCHANGED ret
    ELSE /\ pc' = "done"
         /\ ret' = Return(<<>>, <<>>, Nil)
         /\ UNCHANGED hist
\* What Complete does with the error of one query: retry, or return it.
CompleteOutcome(e) ==
    IF Retries(e)
    THEN Continue /\ UNCHANGED ret
    ELSE /\ pc' = "done"
         /\ ret' = Return(<<>>, <<>>, e)
         /\ UNCHANGED hist

\* One iteration of Complete's loop: the request is sent, and the error of the
\* query (nil on success) is retried or returned. Completing holds the
\* connection, and the service may answer 200 and still report an error.
CompleteAttempt ==
    /\ pc = "body"
    /\ fn = "Complete"
    /\ reqs' = Append(reqs, CompleteRequest)
    /\ \E r \in {Response(200, Nil, "")} \cup ErrorResponses \cup LateErrorResponses :
         /\ resp' = r
         /\ CompleteOutcome(query(r))
    /\ UNCHANGED <<signerVars, concVars>>
    /\ UNCHANGED <<op, fn, arg, m, strategy, attempt, marker, acc, prefixes, data,
                   pos, err, fetched>>

\* ------------------------------------------------------------- Abort
AbortRequest ==
    Request("DELETE", m.Key, FALSE, m.UploadId, "", <<>>, 0, <<>>, 0)

AbortCall ==
    /\ Enter("Abort", "Abort", [none |-> TRUE])
    /\ UNCHANGED <<signerVars, concVars>>
    /\ UNCHANGED <<m, strategy, marker, acc, prefixes, data, pos, err, resp, reqs,
                   fetched, hist, ret>>

\* One iteration of Abort's loop.
AbortAttempt ==
    /\ pc = "body"
    /\ fn = "Abort"
    /\ reqs' = Append(reqs, AbortRequest)
    /\ \E r \in {Response(200, Nil, "")} \cup ErrorResponses :
         /\ resp' = r
         /\ IF Retries(query(r))
            THEN Continue /\ UNCHANGED ret
            ELSE /\ pc' = "done"
                 /\ ret' = Return(<<>>, <<>>, query(r))
                 /\ UNCHANGED hist
    /\ UNCHANGED <<signerVars, concVars>>
    /\ UNCHANGED <<op, fn, arg, m, strategy, attempt, marker, acc, prefixes, data,
                   pos, err, fetched>>

\* ------------------------------------------------------------- ListParts
ListPartsRequestNoMarker ==
    Request("GET", m.Key, FALSE, m.UploadId, "", <<>>, 0, <<>>, 0)
\* The request of one iteration, with the params as they are then.
ListPartsRequest ==
    Request("GET", m.Key, FALSE, m.UploadId, "", marker, 0, <<>>, 0)

ListPartsCall ==
    /\ Enter("ListParts", "ListParts", [none |-> TRUE])
    /\ UNCHANGED <<signerVars, concVars>>
    /\ UNCHANGED <<m, strategy, marker, acc, prefixes, data, pos, err, resp, reqs,
                   fetched, hist, ret>>

\* An iteration of ListParts whose query fails: retried, or returned.
ListPartsError ==
    /\ pc = "body"
    /\ fn = "ListParts"
    /\ reqs' = Append(reqs, ListPartsRequest)
    /\ \E r \in ErrorResponses :
         /\ resp' = r
         /\ IF Retries(query(r))
            THEN Continue /\ UNCHANGED ret
            ELSE /\ pc' = "done"
                 /\ ret' = Return(<<>>, <<>>, query(r))
                 /\ UNCHANGED hist
    /\ UNCHANGED <<signerVars, concVars>>
    /\ UNCHANGED <<op, fn, arg, m, strategy, attempt, marker, acc, prefixes, data,
                   pos, err, fetched>>

AfterPageKeep(a) == a
\* attempt = attempts.Start() // Last request worked.
AfterPageStart(a) == AttemptStart

AppendPageReplace(parts, page) == page
\* parts = append(parts, resp.Part...)
AppendPage(parts, page) == parts \o page

\* An iteration of ListParts whose query succeeds with a truncated page: the
\* page is kept, the marker advances and the next page gets a fresh Attempt.
ListPartsPage ==
    /\ pc = "body"
    /\ fn = "ListParts"
    /\ hist.pages + 1 < MaxPages
    /\ reqs' = Append(reqs, ListPartsRequest)
    /\ resp' = Response(200, Nil, "")
    /\ \E page \in SeqsUpTo(ListedParts, MaxParts - Len(fetched)) :
         /\ acc' = AppendPage(acc, page)
         /\ fetched' = fetched \o page
         /\ marker' = <<NextMarker>>
    /\ attempt' = AfterPageStart(attempt)
    /\ pc' = "loop"
    /\ hist' = [hist EXCEPT !.pages = @ + 1, !.curFails = 0]
    /\ UNCHANGED <<signerVars, concVars>>
    /\ UNCHANGED <<op, fn, arg, m, strategy, prefixes, data, pos, err, ret>>

\* An iteration of ListParts whose query succeeds with the last page: all the
\* parts are sorted and returned.
ListPartsLast ==
    /\ pc = "body"
    /\ fn = "ListParts"
    /\ reqs' = Append(reqs, ListPartsRequest)
    /\ resp' = Response(200, Nil, "")
    /\ \E page \in SeqsUpTo(ListedParts, MaxParts - Len(fetched)) :
         /\ acc' = AppendPage(acc, page)
         /\ fetched' = fetched \o page
         /\ \E sorted \in SortParts(acc') : ret' = Return(sorted, <<>>, Nil)
    /\ pc' = "done"
    /\ hist' = [hist EXCEPT !.pages = @ + 1]
    /\ UNCHANGED <<signerVars, concVars>>
    /\ UNCHANGED <<op, fn, arg, m, strategy, attempt, marker, prefixes, data, pos,
                   err>>

\* ------------------------------------------------------------- ListMulti
\* strings.HasPrefix over the keys of the model.
HasPrefix(k, p) == p = "" \/ k = p \/ (p = "k" /\ k = "kx")
\* The in-progress uploads the service can list for a prefix.
Uploads(prefix) ==
    {u \in [Key : Keys, UploadId : UploadIds] :
        HasPrefix(u.Key, prefix) /\ (u.Key = "k" \/ u.UploadId = "u1")}

\* The common prefixes of one page: none without a delimiter.
CommonPrefixes(delim) == IF delim = "" THEN {<<>>} ELSE {<<>>, <<"a/">>}

ListMultiRequest ==
    Request("GET", "", TRUE, "", arg.prefix, marker, 0, <<>>, 0)

ListMultiCall ==
    /\ Enter("ListMulti", "ListMulti", [prefix |-> "k", delim |-> "/"])
    /\ UNCHANGED <<signerVars, concVars>>
    /\ UNCHANGED <<m, strategy, marker, acc, prefixes, data, pos, err, resp, reqs,
                   fetched, hist, ret>>

ListMultiReturnPartial(r, h) ==
    /\ ret' = [r EXCEPT !.val = acc, !.prefixes = prefixes]
    /\ hist' = [h EXCEPT !.listErr = r.err]
    /\ IF op = "Multi"
       THEN pc' = "after" /\ fn' = "Multi"
       ELSE pc' = "done" /\ fn' = fn
\* ListMulti returns: to the caller, or into Multi, which called it.
ListMultiReturn(r, h) ==
    /\ ret' = r
    /\ hist' = [h EXCEPT !.listErr = r.err]
    /\ IF op = "Multi"
       THEN pc' = "after" /\ fn' = "Multi"
       ELSE pc' = "done" /\ fn' = fn

\* An iteration of ListMulti whose query fails: retried, or returned.
ListMultiError ==
    /\ pc = "body"
    /\ fn = "ListMulti"
    /\ reqs' = Append(reqs, ListMultiRequest)
    /\ \E r \in ErrorResponses :
         /\ resp' = r
         /\ IF Retries(query(r))
            THEN Continue /\ UNCHANGED <<ret, fn>>
            ELSE ListMultiReturn(Return(<<>>, <<>>, query(r)), hist)
    /\ UNCHANGED <<signerVars, concVars>>
    /\ UNCHANGED <<op, arg, m, strategy, attempt, marker, acc, prefixes, data, pos,
                   err, fetched>>

\* multi := &resp.Upload[i]; multi.Bucket = b
Adopt(u) == [Bucket |-> BucketName, Key |-> u.Key, UploadId |-> u.UploadId]
AdoptAll(page) == [i \in 1 .. Len(page) |-> Adopt(page[i])]

\* An iteration of ListMulti whose query succeeds with a truncated page.
ListMultiPage ==
    /\ pc = "body"
    /\ fn = "ListMulti"
    /\ hist.pages + 1 < MaxPages
    /\ reqs' = Append(reqs, ListMultiRequest)
    /\ resp' = Response(200, Nil, "")
    /\ \E page \in SeqsUpTo(Uploads(arg.prefix), MaxParts - Len(fetched)),
          common \in CommonPrefixes(arg.delim) :
         /\ acc' = acc \o AdoptAll(page)
         /\ prefixes' = prefixes \o common
         /\ fetched' = fetched \o AdoptAll(page)
         /\ marker' = <<NextMarker, NextMarker>>
    /\ attempt' = AfterPageStart(attempt)
    /\ pc' = "loop"
    /\ hist' = [hist EXCEPT !.pages = @ + 1, !.curFails = 0]
    /\ UNCHANGED <<signerVars, concVars>>
    /\ UNCHANGED <<op, fn, arg, m, strategy, data, pos, err, ret>>

\* An iteration of ListMulti whose query succeeds with the last page.
ListMultiLast ==
    /\ pc = "body"
    /\ fn = "ListMulti"
    /\ reqs' = Append(reqs, ListMultiRequest)
    /\ resp' = Response(200, Nil, "")
    /\ \E page \in SeqsUpTo(Uploads(arg.prefix), MaxParts - Len(fetched)),
          common \in CommonPrefixes(arg.delim) :
         /\ acc' = acc \o AdoptAll(page)
         /\ prefixes' = prefixes \o common
         /\ fetched' = fetched \o AdoptAll(page)
         /\ ListMultiReturn(Return(acc', prefixes', Nil),
                            [hist EXCEPT !.pages = @ + 1])
    /\ UNCHANGED <<signerVars, concVars>>
    /\ UNCHANGED <<op, arg, m, strategy, attempt, marker, data, pos, err>>

\* ------------------------------------------------------------- InitMulti
InitMultiRequest ==
    Request("POST", arg.key, TRUE, "", "", <<>>, 0, <<>>, 0)

InitMultiCall ==
    /\ \E key \in Keys : Enter("InitMulti", "InitMulti", [key |-> key])
    /\ UNCHANGED <<signerVars, concVars>>
    /\ UNCHANGED <<m, strategy, marker, acc, prefixes, data, pos, err, resp, reqs,
                   fetched, hist, ret>>

\* After InitMulti's loop:
\* if err != nil { return nil, err }; return &Multi{b, key, resp.UploadId}, nil
InitMultiReturn(e, uploadId) ==
    /\ pc' = "done"
    /\ ret' = IF e # Nil
              THEN Return(<<>>, <<>>, e)
              ELSE Return(<<[Bucket |-> BucketName, Key |-> arg.key,
                             UploadId |-> uploadId]>>, <<>>, Nil)

\* The head of InitMulti's loop: when Next is false the loop ends, and the
\* error of the last attempt is returned.
InitMultiNext ==
    /\ pc = "loop"
    /\ fn = "InitMulti"
    /\ IF AttemptNext(attempt)
       THEN /\ attempt' = attempt + 1
            /\ pc' = "body"
            /\ hist' = [hist EXCEPT !.iters = @ + 1]
            /\ resp' = NoResp
            /\ UNCHANGED ret
       ELSE /\ InitMultiReturn(err, "")
            /\ UNCHANGED <<attempt, hist, resp>>
    /\ UNCHANGED <<signerVars, concVars>>
    /\ UNCHANGED <<op, fn, arg, m, strategy, marker, acc, prefixes, data, pos, err,
                   reqs, fetched>>

\* An iteration of InitMulti's loop: err = query(...); if !shouldRetry(err) { break }
InitMultiAttempt ==
    /\ pc = "body"
    /\ fn = "InitMulti"
    /\ reqs' = Append(reqs, InitMultiRequest)
    /\ \E r \in {Response(200, Nil, "")} \cup ErrorResponses, id \in UploadIds :
         /\ resp' = r
         /\ err' = query(r)
         /\ IF ~shouldRetry(query(r))
            THEN InitMultiReturn(query(r), id) /\ UNCHANGED hist
            ELSE Continue /\ UNCHANGED ret
    /\ UNCHANGED <<signerVars, concVars>>
    /\ UNCHANGED <<op, fn, arg, m, strategy, attempt, marker, acc, prefixes, data,
                   pos, fetched>>

\* ------------------------------------------------------------- Multi
\* multis, _, err := b.ListMulti(key, "")
MultiCall ==
    /\ \E key \in Keys :
         Enter("Multi", "ListMulti", [key |-> key, prefix |-> key, delim |-> ""])
    /\ UNCHANGED <<signerVars, concVars>>
    /\ UNCHANGED <<m, strategy, marker, acc, prefixes, data, pos, err, resp, reqs,
                   fetched, hist, ret>>

\* if err != nil && !hasCode(err, "NoSuchUpload") { return nil, err }
MultiListFailsAny(e) == e # Nil
MultiListFails(e) == e # Nil /\ ~hasCode(e, "NoSuchUpload")

\* for _, m := range multis { if m.Key == key { return m, nil } }
MatchingKeyPrefix(multis, key) ==
    {i \in 1 .. Len(multis) : HasPrefix(multis[i].Key, key)}
MatchingKey(multis, key) == {i \in 1 .. Len(multis) : multis[i].Key = key}

\* Multi after its listing failed with an error other than NoSuchUpload.
MultiListError ==
    /\ pc = "after"
    /\ fn = "Multi"
    /\ MultiListFails(ret.err)
    /\ pc' = "done"
    /\ ret' = Return(<<>>, <<>>, ret.err)
    /\ UNCHANGED <<signerVars, concVars>>
    /\ UNCHANGED <<op, fn, arg, m, strategy, attempt, marker, acc, prefixes, data,
                   pos, err, resp, reqs, fetched, hist>>

\* Multi finds an upload of the key among the listed ones: the first is returned.
MultiReturnOld ==
    /\ pc = "after"
    /\ fn = "Multi"
    /\ ~MultiListFails(ret.err)
    /\ MatchingKey(ret.val, arg.key) # {}
    /\ LET first == CHOOSE i \in MatchingKey(ret.val, arg.key) :
                        \A j \in MatchingKey(ret.val, arg.key) : i <= j
       IN  ret' = Return(<<ret.val[first]>>, <<>>, Nil)
    /\ pc' = "done"
    /\ UNCHANGED <<signerVars, concVars>>
    /\ UNCHANGED <<op, fn, arg, m, strategy, attempt, marker, acc, prefixes, data,
                   pos, err, resp, reqs, fetched, hist>>

\* Multi finds none: return b.InitMulti(key, contType, perm)
MultiInit ==
    /\ pc = "after"
    /\ fn = "Multi"
    /\ ~MultiListFails(ret.err)
    /\ MatchingKey(ret.val, arg.key) = {}
    /\ fn' = "InitMulti"
    /\ pc' = "loop"
    /\ attempt' = AttemptStart
    /\ err' = Nil
    /\ hist' = [NoHist EXCEPT !.listErr = hist.listErr]
    /\ UNCHANGED <<signerVars, concVars>>
    /\ UNCHANGED <<op, arg, m, strategy, marker, acc, prefixes, data, pos, resp,
                   reqs, fetched, ret>>

\* ------------------------------------------------------------- PutPartHash
PutPartRequest(offset) ==
    Request("PUT", m.Key, FALSE, m.UploadId, "", <<>>, arg.n, <<"payload">>, offset)

\* The payload source is wherever the caller left it.
PutPartHashCall ==
    /\ \E n \in PartNumbers, partSize \in PartSizes :
         /\ Enter("PutPartHash", "PutPartHash", [n |-> n, partSize |-> partSize])
         /\ pos' \in {0, partSize}
    /\ UNCHANGED <<signerVars, concVars>>
    /\ UNCHANGED <<m, strategy, marker, acc, prefixes, data, err, resp, reqs, fetched,
                   hist, ret>>

SeekFirstOnly(offset) == IF attempt = 1 THEN 0 ELSE offset
\* r.Seek(0, 0), when it succeeds: the new offset of r.
Seek(offset) == 0

\* _, err := r.Seek(0, 0); if err != nil { return Part{}, err }
PutPartSeekFails ==
    /\ pc = "body"
    /\ fn = "PutPartHash"
    /\ pc' = "done"
    /\ ret' = Return(<<ZeroPart>>, <<>>, "SeekError")
    /\ UNCHANGED <<signerVars, concVars>>
    /\ UNCHANGED <<op, fn, arg, m, strategy, attempt, marker, acc, prefixes, data,
                   pos, err, resp, reqs, fetched, hist>>

\* err = m.Bucket.S3.prepare(req); if err != nil { return Part{}, err }
PutPartPrepareFails ==
    /\ pc = "body"
    /\ fn = "PutPartHash"
    /\ pos' = Seek(pos)
    /\ pc' = "done"
    /\ ret' = Return(<<ZeroPart>>, <<>>, "PrepareError")
    /\ UNCHANGED <<signerVars, concVars>>
    /\ UNCHANGED <<op, fn, arg, m, strategy, attempt, marker, acc, prefixes, data,
                   err, resp, reqs, fetched, hist>>

\* errors.New("part upload succeeded with no ETag")
NoETagError == "part upload succeeded with no ETag"

PutPartResultRetryNoETag(r) ==
    IF Retries(r.code) \/ (r.code = Nil /\ r.etag = "" /\ AttemptHasNext(attempt))
    THEN Continue /\ UNCHANGED ret
    ELSE /\ pc' = "done"
         /\ UNCHANGED hist
         /\ ret' = IF r.code # Nil
                   THEN Return(<<ZeroPart>>, <<>>, r.code)
                   ELSE IF r.etag = ""
                   THEN Return(<<ZeroPart>>, <<>>, NoETagError)
                   ELSE Return(<<[N |-> arg.n, ETag |-> r.etag,
                                  Size |-> arg.partSize]>>, <<>>, Nil)
\* What PutPartHash does with the outcome of run: the error is retried or
\* returned, a response without an ETag is an error, and else the Part is returned.
PutPartResult(r) ==
    IF Retries(r.code)
    THEN Continue /\ UNCHANGED ret
    ELSE /\ pc' = "done"
         /\ UNCHANGED hist
         /\ ret' = IF r.code # Nil
                   THEN Return(<<ZeroPart>>, <<>>, r.code)
                   ELSE IF r.etag = ""
                   THEN Return(<<ZeroPart>>, <<>>, NoETagError)
                   ELSE Return(<<[N |-> arg.n, ETag |-> r.etag,
                                  Size |-> arg.partSize]>>, <<>>, Nil)

\* An iteration of PutPartHash that reaches run: the source is rewound, the
\* request is sent with the payload read from there on, and the transport reads
\* some of the payload.
PutPartAttempt ==
    /\ pc = "body"
    /\ fn = "PutPartHash"
    /\ reqs' = Append(reqs, PutPartRequest(Seek(pos)))
    /\ pos' \in {p \in 0 .. arg.partSize : p >= Seek(pos)}
    /\ \E r \in ErrorResponses \cup {Response(200, Nil, e) : e \in ETags \cup {""}} :
         /\ resp' = r
         /\ PutPartResult(r)
    /\ UNCHANGED <<signerVars, concVars>>
    /\ UNCHANGED <<op, fn, arg, m, strategy, attempt, marker, acc, prefixes, data,
                   err, fetched>>

Next ==
    \/ LoopNext
    \/ CompleteCall
    \/ CompleteAttempt
    \/ AbortCall
    \/ AbortAttempt
    \/ ListPartsCall
    \/ ListPartsError
    \/ ListPartsPage
    \/ ListPartsLast
    \/ ListMultiCall
    \/ ListMultiError
    \/ ListMultiPage
    \/ ListMultiLast
    \/ InitMultiCall
    \/ InitMultiNext
    \/ InitMultiAttempt
    \/ MultiCall
    \/ MultiListError
    \/ MultiReturnOld
    \/ MultiInit
    \/ PutPartHashCall
    \/ PutPartSeekFails
    \/ PutPartPrepareFails
    \/ PutPartAttempt

Spec == Init /\ [][Next]_vars

\* ------------------------------------------------------------- concurrent calls
\* Two goroutines call operations on the one handle m. The locals of a call
\* (its arguments, its Attempt, its headers and params maps, its request and
\* response) are its own; m and the attempt strategy are what the calls share,
\* and the operations only read them. One step is one pass of a loop head or
\* one iteration of a loop body, with the exchange it makes with the service.

\* for attempt := attempts.Start(); attempt.Next(); { ... } panic("unreachable")
\* The loop head, on the locals l of one call.
CallLoopNext(l) ==
    IF AttemptNext(l.attempt)
    THEN [l EXCEPT !.attempt = @ + 1, !.pc = "body", !.resp = NoResp]
    ELSE [l EXCEPT !.pc = "panic"]

\* if shouldRetry(err) && attempt.HasNext() { continue }
CallRetries(l, e) == shouldRetry(e) /\ AttemptHasNext(l.attempt)

\* The loop head of a call that is running.
ConcLoopNext(c) ==
    /\ calls[c].pc = "loop"
    /\ calls' = [calls EXCEPT ![c] = CallLoopNext(@)]
    /\ UNCHANGED upload
    /\ UNCHANGED <<multiVars, signerVars>>

\* ------------------------------------------------------------- PutPartHash, twice at once
\* The request of one iteration of PutPartHash, from the locals of the call.
PutPartSent(l) ==
    Request("PUT", m.Key, FALSE, m.UploadId, "", <<>>, l.n, <<"payload">>, Seek(l.pos))

PutPartReturnSharedArgs(l, r) ==
    IF r.code # Nil
    THEN Return(<<ZeroPart>>, <<>>, r.code)
    ELSE IF r.etag = ""
    THEN Return(<<ZeroPart>>, <<>>, NoETagError)
    ELSE Return(<<[N |-> calls["first"].n, ETag |-> r.etag,
                   Size |-> calls["first"].partSize]>>, <<>>, Nil)
\* What PutPartHash returns once it does not retry: the error of run, the
\* error of a missing ETag, or Part{n, etag, partSize}.
PutPartReturn(l, r) ==
    IF r.code # Nil
    THEN Return(<<ZeroPart>>, <<>>, r.code)
    ELSE IF r.etag = ""
    THEN Return(<<ZeroPart>>, <<>>, NoETagError)
    ELSE Return(<<[N |-> l.n, ETag |-> r.etag, Size |-> l.partSize]>>, <<>>, Nil)

\* One iteration of PutPartHash that reaches run, on the locals l: the source
\* is rewound, the request is sent, the transport reads the payload up to p,
\* and the response r is retried or decides the return.
PutPartRun(l, r, p) ==
    LET ran == [l EXCEPT !.sent = <<PutPartSent(l)>>, !.pos = p, !.resp = r]
    IN  IF CallRetries(l, r.code)
        THEN [ran EXCEPT !.pc = "loop"]
        ELSE [ran EXCEPT !.pc = "done", !.ret = PutPartReturn(l, r)]

\* A caller starts PutPartHash on m, with a part number no other call uses and
\* a payload source of its own, left wherever the caller left it.
ConcPutPartHashCall(c) ==
    /\ calls[c].pc = "idle"
    /\ \E n \in PartNumbers, partSize \in PartSizes :
         /\ \A d \in CallIds \ {c} : calls[d].n # n
         /\ \E offset \in {0, partSize} :
              calls' = [calls EXCEPT ![c] =
                           [IdleCall EXCEPT !.fn = "PutPartHash", !.pc = "loop", !.n = n,
                                            !.partSize = partSize, !.pos = offset]]
    /\ UNCHANGED upload
    /\ UNCHANGED <<multiVars, signerVars>>

\* _, err := r.Seek(0, 0); if err != nil { return Part{}, err }
ConcPutPartSeekFails(c) ==
    /\ calls[c].pc = "body"
    /\ calls[c].fn = "PutPartHash"
    /\ calls' = [calls EXCEPT ![c].pc = "done",
                              ![c].ret = Return(<<ZeroPart>>, <<>>, "SeekError")]
    /\ UNCHANGED upload
    /\ UNCHANGED <<multiVars, signerVars>>

\* err = m.Bucket.S3.prepare(req); if err != nil { return Part{}, err }
ConcPutPartPrepareFails(c) ==
    /\ calls[c].pc = "body"
    /\ calls[c].fn = "PutPartHash"
    /\ calls' = [calls EXCEPT ![c].pc = "done",
                              ![c].pos = Seek(@),
                              ![c].ret = Return(<<ZeroPart>>, <<>>, "PrepareError")]
    /\ UNCHANGED upload
    /\ UNCHANGED <<multiVars, signerVars>>

\* hresp, err := m.Bucket.S3.run(req), and what follows it.
ConcPutPartAttempt(c) ==
    /\ calls[c].pc = "body"
    /\ calls[c].fn = "PutPartHash"
    /\ \E r \in ErrorResponses \cup {Response(200, Nil, e) : e \in ETags \cup {""}},
          p \in 0 .. calls[c].partSize :
         /\ p >= Seek(calls[c].pos)
         /\ calls' = [calls EXCEPT ![c] = PutPartRun(@, r, p)]
    /\ UNCHANGED upload
    /\ UNCHANGED <<multiVars, signerVars>>

PutPartsNext ==
    \E c \in CallIds :
        \/ ConcPutPartHashCall(c)
        \/ ConcLoopNext(c)
        \/ ConcPutPartSeekFails(c)
        \/ ConcPutPartPrepareFails(c)
        \/ ConcPutPartAttempt(c)

PutPartsSpec == Init /\ [][PutPartsNext]_vars

\* ------------------------------------------------------------- Complete and Abort at once
\* The service holds the upload: open, completed or aborted. What a request
\* does to it and what the caller gets back is the service's choice.
\* An answer that leaves the upload as it is: an error, of any kind.
Refused(u, errors) == {[upload |-> u, resp |-> r] : r \in errors}
\* An answer to a request that closes an open upload as `closed`: done and
\* answered, or done with the answer lost on the way; an upload closed the
\* same way before may be answered as done again; an upload closed the other
\* way is not found.
Closing(u, closed) ==
    IF u = "open"
    THEN {[upload |-> closed, resp |-> Response(200, Nil, "")],
          [upload |-> closed, resp |-> Response(500, "InternalError", "")]}
    ELSE IF u = closed
    THEN {[upload |-> u, resp |-> Response(200, Nil, "")]}
    ELSE {[upload |-> u, resp |-> Response(500, "NoSuchUpload", "")]}
\* The service on a request to complete the upload, and on one to abort it.
ServiceComplete(u) == Refused(u, ErrorResponses \cup LateErrorResponses) \cup Closing(u, "completed")
ServiceAbort(u) == Refused(u, ErrorResponses) \cup Closing(u, "aborted")

\* The requests of Complete and of Abort, from the locals of the call.
CompleteSent(l) == Request("POST", m.Key, FALSE, m.UploadId, "", <<>>, 0, l.data, 0)
AbortSent(l) == Request("DELETE", m.Key, FALSE, m.UploadId, "", <<>>, 0, <<>>, 0)

ErrorReturnNil(e) == Return(<<>>, <<>>, Nil)
\* return err
ErrorReturn(e) == Return(<<>>, <<>>, e)

\* One iteration of the loop of Complete or of Abort, on the locals l: the
\* request is sent, and the error of the query is retried or returned.
QueryRun(l, request, r) ==
    LET ran == [l EXCEPT !.sent = <<request>>, !.resp = r]
    IN  IF CallRetries(l, query(r))
        THEN [ran EXCEPT !.pc = "loop"]
        ELSE [ran EXCEPT !.pc = "done", !.ret = ErrorReturn(query(r))]

\* A caller starts Complete on m while no other call completes it: the
\* manifest is built, sorted and marshalled.
ConcCompleteCall(c) ==
    /\ calls[c].pc = "idle"
    /\ \A d \in CallIds \ {c} : calls[d].fn # "Complete"
    /\ \E ps \in SeqsUpTo(Parts, MaxParts) :
         \E sorted \in SortCompleteParts(ToCompleteParts(ps)) :
           calls' = [calls EXCEPT ![c] =
                        [IdleCall EXCEPT !.fn = "Complete", !.pc = "loop",
                                         !.data = Marshal(sorted)]]
    /\ UNCHANGED upload
    /\ UNCHANGED <<multiVars, signerVars>>

\* A caller starts Abort on m while no other call aborts it.
ConcAbortCall(c) ==
    /\ calls[c].pc = "idle"
    /\ \A d \in CallIds \ {c} : calls[d].fn # "Abort"
    /\ calls' = [calls EXCEPT ![c] = [IdleCall EXCEPT !.fn = "Abort", !.pc = "loop"]]
    /\ UNCHANGED upload
    /\ UNCHANGED <<multiVars, signerVars>>

\* err := m.Bucket.S3.query(req, nil) of Complete, and what follows it.
ConcCompleteAttempt(c) ==
    /\ calls[c].pc = "body"
    /\ calls[c].fn = "Complete"
    /\ \E s \in ServiceComplete(upload) :
         /\ upload' = s.upload
         /\ calls' = [calls EXCEPT ![c] = QueryRun(@, CompleteSent(@), s.resp)]
    /\ UNCHANGED <<multiVars, signerVars>>

\* err := m.Bucket.S3.query(req, nil) of Abort, and what follows it.
ConcAbortAttempt(c) ==
    /\ calls[c].pc = "body"
    /\ calls[c].fn = "Abort"
    /\ \E s \in ServiceAbort(upload) :
         /\ upload' = s.upload
         /\ calls' = [calls EXCEPT ![c] = QueryRun(@, AbortSent(@), s.resp)]
    /\ UNCHANGED <<multiVars, signerVars>>

CompleteAbortNext ==
    \E c \in CallIds :
        \/ ConcCompleteCall(c)
        \/ ConcAbortCall(c)
        \/ ConcLoopNext(c)
        \/ ConcCompleteAttempt(c)
        \/ ConcAbortAttempt(c)

CompleteAbortSpec == Init /\ [][CompleteAbortNext]_vars

\* ------------------------------------------------------------- strings
\* A string is the sequence of its bytes, each an ASCII code: "host" is
\* <<104, 111, 115, 116>>. Go compares, sorts, trims and escapes strings
\* byte by byte, and so do the operators below.

\* The Go comparison a < b of two strings.
RECURSIVE StrLess(_, _)
StrLess(a, b) ==
    IF a = b \/ b = <<>> THEN FALSE
    ELSE IF a = <<>> THEN TRUE
    ELSE IF Head(a) # Head(b) THEN Head(a) < Head(b)
    ELSE StrLess(Tail(a), Tail(b))

\* sort.Strings(a): a in ascending order (equal strings are interchangeable).
SortStrings(a) ==
    LET place(i) == 1 + Cardinality({j \in 1 .. Len(a) : StrLess(a[j], a[i])})
                      + Cardinality({j \in 1 .. i - 1 : a[j] = a[i]})
    IN  [p \in 1 .. Len(a) |-> a[CHOOSE i \in 1 .. Len(a) : place(i) = p]]

\* The strings of a set in ascending order: what sort.Strings makes of the keys
\* collected from a map, in whatever order the range gave them.
SortedKeys(set) ==
    [p \in 1 .. Cardinality(set) |->
        CHOOSE x \in set : Cardinality({y \in set : StrLess(y, x)}) = p - 1]

\* strings.ToLower(s), over ASCII.
ToLower(s) == [i \in 1 .. Len(s) |-> IF s[i] \in 65 .. 90 THEN s[i] + 32 ELSE s[i]]

\* textproto.CanonicalMIMEHeaderKey(s), which the methods of http.Header apply
\* to a name: the first letter and each letter after a hyphen in upper case,
\* the others in lower case.
CanonicalMIMEHeaderKey(s) ==
    [i \in 1 .. Len(s) |->
        IF i = 1 \/ s[i - 1] = 45
        THEN IF s[i] \in 97 .. 122 THEN s[i] - 32 ELSE s[i]
        ELSE IF s[i] \in 65 .. 90 THEN s[i] + 32 ELSE s[i]]

\* strings.Trim(w, " "): w without its leading and trailing spaces. Only the
\* space is in the cutset: a tab stays.
RECURSIVE TrimLeft(_)
TrimLeft(w) == IF w # <<>> /\ Head(w) = 32 THEN TrimLeft(Tail(w)) ELSE w
RECURSIVE TrimRight(_)
TrimRight(w) ==
    IF w # <<>> /\ w[Len(w)] = 32 THEN TrimRight(SubSeq(w, 1, Len(w) - 1)) ELSE w
Trim(w) == TrimRight(TrimLeft(w))

\* strings.Join(a, sep)
RECURSIVE Join(_, _)
Join(a, sep) ==
    IF a = <<>> THEN <<>>
    ELSE IF Len(a) = 1 THEN a[1]
    ELSE a[1] \o sep \o Join(Tail(a), sep)

\* The concatenation of the strings of a sequence.
RECURSIVE Concat(_)
Concat(a) ==
    IF a = <<>> THEN <<>>
    ELSE IF Len(a) = 1 THEN a[1]
    ELSE LET half == Len(a) \div 2
         IN  Concat(SubSeq(a, 1, half)) \o Concat(SubSeq(a, half + 1, Len(a)))

\* ------------------------------------------------------------- net/url
\* The bytes url.QueryEscape leaves as they are: letters, digits, - . _ ~
Unreserved(c) == c \in (48 .. 57) \cup (65 .. 90) \cup (97 .. 122) \cup {45, 46, 95, 126}
\* "0123456789ABCDEF"[n]
HexDigit(n) == IF n < 10 THEN 48 + n ELSE 55 + n
\* url.QueryEscape(s): a space becomes "+", every other byte that is not
\* unreserved becomes "%" and its two hexadecimal digits.
QueryEscape(s) ==
    Concat([i \in 1 .. Len(s) |->
        IF Unreserved(s[i]) THEN <<s[i]>>
        ELSE IF s[i] = 32 THEN <<43>>
        ELSE <<37, HexDigit(s[i] \div 16), HexDigit(s[i] % 16)>>])

\* The value of a hexadecimal digit.
UnHex(c) == IF c \in 48 .. 57 THEN c - 48 ELSE IF c \in 65 .. 70 THEN c - 55 ELSE c - 87
\* url.QueryUnescape(s), for a well-formed s: "+" is a space, "%XY" the byte XY,
\* every other byte itself. A byte of s starts one of these unless it is one
\* of the two digits after a "%".
QueryUnescape(s) ==
    LET starts(i) == ~(i > 1 /\ s[i - 1] = 37) /\ ~(i > 2 /\ s[i - 2] = 37)
        at == SelectSeq([i \in 1 .. Len(s) |-> i], starts)
    IN  [k \in 1 .. Len(at) |->
            IF s[at[k]] = 43 THEN 32
            ELSE IF s[at[k]] = 37 THEN 16 * UnHex(s[at[k] + 1]) + UnHex(s[at[k] + 2])
            ELSE s[at[k]]]

\* A raw query is held as the sequence of its name=value pairs, each name and
\* value as it is written between the "&" and "=" of URL.RawQuery.
\* u.Query(): the values of each name, unescaped, in the order of the pairs.
Query(raw) ==
    LET parsed == [i \in 1 .. Len(raw) |->
                      <<QueryUnescape(raw[i][1]), QueryUnescape(raw[i][2])>>]
        values(name) ==
            LET named(pair) == pair[1] = name
                pairs == SelectSeq(parsed, named)
            IN  [j \in 1 .. Len(pairs) |-> pairs[j][2]]
    IN  [name \in {parsed[i][1] : i \in 1 .. Len(parsed)} |-> values(name)]

\* url.Values.Encode(): the pairs of the names in ascending order, each name
\* with its values in their order; a name without values gives no pair.
RECURSIVE EncodeKeys(_, _)
EncodeKeys(v, keys) ==
    IF keys = <<>> THEN <<>>
    ELSE [j \in 1 .. Len(v[Head(keys)]) |->
             <<QueryEscape(Head(keys)), QueryEscape(v[Head(keys)][j])>>]
         \o EncodeKeys(v, Tail(keys))
Encode(v) == EncodeKeys(v, SortedKeys(DOMAIN v))

\* ------------------------------------------------------------- net/http
\* An http.Header and a url.Values are Go maps from a name to the slice of its
\* values: functions from strings to sequences of strings. The methods of
\* http.Header use the canonical spelling of a name; a map literal, as the ones
\* of multi.go, holds the name as it was written.
\* h.Get(name): the first value of the name, "" when it has none.
HeaderGet(h, name) ==
    IF CanonicalMIMEHeaderKey(name) \in DOMAIN h /\ h[CanonicalMIMEHeaderKey(name)] # <<>>
    THEN h[CanonicalMIMEHeaderKey(name)][1]
    ELSE <<>>
\* h.Set(name, value)
HeaderSet(h, name, value) ==
    [k \in DOMAIN h \cup {CanonicalMIMEHeaderKey(name)} |->
        IF k = CanonicalMIMEHeaderKey(name) THEN <<value>> ELSE h[k]]
\* h.Del(name)
HeaderDel(h, name) == [k \in DOMAIN h \ {CanonicalMIMEHeaderKey(name)} |-> h[k]]
\* form[name] = []string{value}
FormPut(form, name, value) ==
    [k \in DOMAIN form \cup {name} |-> IF k = name THEN <<value>> ELSE form[k]]

\* ------------------------------------------------------------- canonical request
ReplacePlusNone(s) == s
\* strings.Replace(query_str, "+", "%20", -1)
ReplacePlus(s) == Concat([i \in 1 .. Len(s) |-> IF s[i] = 43 THEN <<37, 50, 48>> ELSE <<s[i]>>])

\* func (s *V4Signer) canonicalQueryString(u *url.URL) string
\* The pairs of one name are joined in the order of its values; the names are
\* sorted as url.QueryEscape wrote them.
canonicalQueryString(raw) ==
    LET q == Query(raw)
        keyValues(k) ==
            Join([idx \in 1 .. Len(q[k]) |->
                     QueryEscape(k) \o <<61>> \o QueryEscape(q[k][idx])], <<38>>)
        keys == SortedKeys({QueryEscape(k) : k \in DOMAIN q})
        pairs == [idx \in 1 .. Len(keys) |->
                     keyValues(CHOOSE k \in DOMAIN q : QueryEscape(k) = keys[idx])]
    IN  ReplacePlus(Join(pairs, <<38>>))

\* The lowercased names of a header map.
LowerNames(h) == {ToLower(k) : k \in DOMAIN h}
\* for k, v := range h { lowerCase[strings.ToLower(k)] = v }
\* Of the names of h with one lowercased spelling, the one the range visits
\* last stays in lowerCase; Go ranges over a map in an order of its choosing,
\* so it can be any of them, for each spelling on its own. LastKeys(h): the
\* sets of names that can stay, one name for each lowercased spelling.
LastKeys(h) ==
    LET alone == {k \in DOMAIN h : \A j \in DOMAIN h : ToLower(j) = ToLower(k) => j = k}
        others == DOMAIN h \ alone
    IN  {alone \cup some :
            some \in {c \in SUBSET others :
                         \A k \in others :
                             Cardinality({j \in c : ToLower(j) = ToLower(k)}) = 1}}

canonicalHeadersNoWriteBack(h, last) ==
    LET keys == SortedKeys(LowerNames(h))
        lowerCase(k) == h[CHOOSE name \in last : ToLower(name) = k]
        v(k) == SortStrings([j \in 1 .. Len(lowerCase(k)) |-> Trim(lowerCase(k)[j])])
        a == [i \in 1 .. Cardinality(DOMAIN h) |->
                 IF i <= Len(keys)
                 THEN ToLower(keys[i]) \o <<58>> \o Join(v(keys[i]), <<44>>)
                 ELSE <<>>]
    IN  [out |-> Join(a, <<10>>), Header |-> h]
\* func (s *V4Signer) canonicalHeaders(h http.Header) string
\* out: the string returned. Header: h after the call, for v is the slice h
\* holds, so that trimming its elements and sorting it changes h.
canonicalHeaders(h, last) ==
    LET keys == SortedKeys(LowerNames(h))
        lowerCase(k) == h[CHOOSE name \in last : ToLower(name) = k]
        v(k) == SortStrings([j \in 1 .. Len(lowerCase(k)) |-> Trim(lowerCase(k)[j])])
        a == [i \in 1 .. Cardinality(DOMAIN h) |->
                 IF i <= Len(keys)
                 THEN ToLower(keys[i]) \o <<58>> \o Join(v(keys[i]), <<44>>)
                 ELSE <<>>]
    IN  [out |-> Join(a, <<10>>),
         Header |-> [k \in DOMAIN h |-> IF k \in last THEN v(ToLower(k)) ELSE h[k]]]

\* func (s *V4Signer) signedHeaders(h http.Header) string
signedHeaders(h) ==
    LET names == SortedKeys(DOMAIN h)
    IN  Join(SortStrings([i \in 1 .. Len(names) |-> ToLower(names[i])]), <<59>>)

\* func (s *V4Signer) canonicalURI(u *url.URL) string
\* The paths of the model are clean and without bytes to escape: url.String and
\* path.Clean return them as they are, and the empty path becomes "/".
canonicalURI(path) == IF path = <<>> THEN <<47>> ELSE path

\* ------------------------------------------------------------- hash.go
\* The digests are taken as free of collisions: the digest of a string is the
\* string between two bytes that stand for the function.
\* func SHA256Hex(in []byte) string
SHA256Hex(in) == <<1>> \o in \o <<2>>
\* func HMAC(key, data []byte) []byte
HMAC(key, bytes) == <<3>> \o key \o <<4>> \o bytes \o <<5>>
\* A digit of the base 16 in lower case, as the verb %x writes it.
LowerHexDigit(n) == IF n < 10 THEN 48 + n ELSE 87 + n
\* fmt.Sprintf("%x", h): two digits for each byte of h, so that the signature
\* holds digits only, whatever bytes were signed.
Hex(h) ==
    [i \in 1 .. 2 * Len(h) |->
        IF i % 2 = 1 THEN LowerHexDigit(h[(i + 1) \div 2] \div 16)
        ELSE LowerHexDigit(h[i \div 2] % 16)]
\* var EmptyStringSHA256Hex = SHA256Hex(nil)
EmptyStringSHA256Hex == SHA256Hex(<<>>)

\* ------------------------------------------------------------- time
\* A time.Time is a number: its tens are the day, its units the time of day.
\* t.Format(ISO8601BasicFormat): the day, "T", the time of day, "Z".
FormatISO(t) == <<48 + (t \div 10), 84, 48 + (t % 10), 90>>
\* t.Format(ISO8601BasicFormatShort): the day.
FormatShort(t) == <<48 + (t \div 10)>>
\* t.Format(http.TimeFormat): the day, the time of day, "GMT".
FormatHTTP(t) == <<48 + (t \div 10), 32, 48 + (t % 10), 32, 71, 77, 84>>
Digits == 48 .. 57
\* time.Parse(ISO8601BasicFormat, s): the time in a set, the empty set for an error.
ParseISO(s) ==
    IF Len(s) = 4 /\ s[1] \in Digits /\ s[2] = 84 /\ s[3] \in Digits /\ s[4] = 90
    THEN {10 * (s[1] - 48) + (s[3] - 48)}
    ELSE {}
\* time.Parse(http.TimeFormat, s)
ParseHTTP(s) ==
    IF Len(s) = 7 /\ s[1] \in Digits /\ s[3] \in Digits
       /\ <<s[2], s[4], s[5], s[6], s[7]>> = <<32, 32, 71, 77, 84>>
    THEN {10 * (s[1] - 48) + (s[3] - 48)}
    ELSE {}
\* The time a successful parse returned.
TimeOf(parsed) == CHOOSE t \in parsed : TRUE

\* ------------------------------------------------------------- V4Signer
\* The signer of the model: s.auth, s.region and s.serviceName.
auth == [AccessKey |-> <<65, 75>>, SecretKey |-> <<83, 75>>]
region == [Name |-> <<114>>]
serviceName == <<115, 51>>

\* func (s *V4Signer) credentialScope(t time.Time) string
credentialScope(t) ==
    FormatShort(t) \o <<47>> \o region.Name \o <<47>> \o serviceName \o <<47, 97, 119, 115, 52, 95, 114, 101, 113, 117, 101, 115, 116>>

\* func (s *V4Signer) derivedKey(t time.Time) []byte
derivedKey(t) ==
    HMAC(HMAC(HMAC(HMAC(<<65, 87, 83, 52>> \o auth.SecretKey, FormatShort(t)), region.Name),
              serviceName), <<97, 119, 115, 52, 95, 114, 101, 113, 117, 101, 115, 116>>)

\* func (s *V4Signer) signature(t time.Time, sts string) string
signature(t, sts) == Hex(HMAC(derivedKey(t), sts))

\* func (s *V4Signer) stringToSign(t time.Time, creq string) string
stringToSign(t, creq) ==
    <<65, 87, 83, 52, 45, 72, 77, 65, 67, 45, 83, 72, 65, 50, 53, 54, 10>> \o FormatISO(t) \o <<10>> \o credentialScope(t) \o <<10>>
    \o SHA256Hex(creq)

\* func (s *V4Signer) authorization(header http.Header, t time.Time, signature string) string
authorization(header, t, sgn) ==
    <<65, 87, 83, 52, 45, 72, 77, 65, 67, 45, 83, 72, 65, 50, 53, 54, 32>> \o <<67, 114, 101, 100, 101, 110, 116, 105, 97, 108, 61>> \o auth.AccessKey \o <<47>> \o credentialScope(t)
    \o <<44, 32>> \o <<83, 105, 103, 110, 101, 100, 72, 101, 97, 100, 101, 114, 115, 61>> \o signedHeaders(header) \o <<44, 32>>
    \o <<83, 105, 103, 110, 97, 116, 117, 114, 101, 61>> \o sgn

\* func (s *V4Signer) canonicalRequest(req *http.Request, payloadHash string) (string, error)
\* creq: the string returned. Header: req.Header after the call.
canonicalRequest(r, payloadHash, last) ==
    LET ch == canonicalHeaders(r.Header, last)
    IN  [creq |-> r.Method \o <<10>> \o canonicalURI(r.Path) \o <<10>>
                  \o canonicalQueryString(r.RawQuery) \o <<10>> \o ch.out \o <<10, 10>>
                  \o signedHeaders(ch.Header) \o <<10>> \o payloadHash,
         Header |-> ch.Header]

requestTimeDateFirst(h, clock) ==
    IF ParseHTTP(HeaderGet(h, <<100, 97, 116, 101>>)) # {}
    THEN [t |-> TimeOf(ParseHTTP(HeaderGet(h, <<100, 97, 116, 101>>))), Header |-> h]
    ELSE IF ParseISO(HeaderGet(h, <<120, 45, 97, 109, 122, 45, 100, 97, 116, 101>>)) # {}
    THEN [t |-> TimeOf(ParseISO(HeaderGet(h, <<120, 45, 97, 109, 122, 45, 100, 97, 116, 101>>))), Header |-> h]
    ELSE [t |-> clock, Header |-> HeaderSet(h, <<120, 45, 97, 109, 122, 45, 100, 97, 116, 101>>, FormatISO(clock))]
\* func (s *V4Signer) requestTime(req *http.Request) time.Time
\* t: the time returned. Header: req.Header after the call.
requestTime(h, clock) ==
    LET date == HeaderGet(h, <<120, 45, 97, 109, 122, 45, 100, 97, 116, 101>>)
    IN  IF ParseISO(date) # {}
        THEN [t |-> TimeOf(ParseISO(date)), Header |-> h]
        ELSE IF ParseHTTP(date) # {}
        THEN [t |-> TimeOf(ParseHTTP(date)),
              Header |-> HeaderSet(h, <<120, 45, 97, 109, 122, 45, 100, 97, 116, 101>>, FormatISO(TimeOf(ParseHTTP(date))))]
        ELSE IF ParseHTTP(HeaderGet(h, <<100, 97, 116, 101>>)) # {}
        THEN [t |-> TimeOf(ParseHTTP(HeaderGet(h, <<100, 97, 116, 101>>))), Header |-> h]
        ELSE [t |-> clock, Header |-> HeaderSet(h, <<120, 45, 97, 109, 122, 45, 100, 97, 116, 101>>, FormatISO(clock))]

WithHostNone(r) == r
\* req.Header.Set("host", req.Host)
WithHost(r) == [r EXCEPT !.Header = HeaderSet(@, <<104, 111, 115, 116>>, r.Host)]

\* if _, ok := req.Form["X-Amz-Expires"]; ok
IsPresigned(r) == <<88, 45, 65, 109, 122, 45, 69, 120, 112, 105, 114, 101, 115>> \in DOMAIN r.Form

\* The branch of Sign that signs by query parameters.
Presign(r, t) ==
    LET header == HeaderDel(r.Header, <<120, 45, 97, 109, 122, 45, 100, 97, 116, 101>>)
        form == FormPut(FormPut(FormPut(FormPut(r.Form,
                    <<88, 45, 65, 109, 122, 45, 83, 105, 103, 110, 101, 100, 72, 101, 97, 100, 101, 114, 115>>, signedHeaders(header)),
                    <<88, 45, 65, 109, 122, 45, 65, 108, 103, 111, 114, 105, 116, 104, 109>>, <<65, 87, 83, 52, 45, 72, 77, 65, 67, 45, 83, 72, 65, 50, 53, 54>>),
                    <<88, 45, 65, 109, 122, 45, 67, 114, 101, 100, 101, 110, 116, 105, 97, 108>>, auth.AccessKey \o <<47>> \o credentialScope(t)),
                    <<88, 45, 65, 109, 122, 45, 68, 97, 116, 101>>, FormatISO(t))
    IN  [r EXCEPT !.Header = header, !.Form = form, !.RawQuery = Encode(form)]

\* Sign, up to the canonical request: the payload hash, the host header, the
\* request time, and the parameters or the x-amz-content-sha256 header.
\* timed: req.Header as requestTime left it.
SignPrepare(r, payloadHash, clock) ==
    LET hash == IF payloadHash = <<>> THEN EmptyStringSHA256Hex ELSE payloadHash
        hosted == WithHost(r)
        rt == requestTime(hosted.Header, clock)
        timed == [hosted EXCEPT !.Header = rt.Header]
    IN  IF IsPresigned(timed)
        THEN [req |-> Presign(timed, rt.t), t |-> rt.t,
              payloadHash |-> <<85, 78, 83, 73, 71, 78, 69, 68, 45, 80, 65, 89, 76, 79, 65, 68>>, timed |-> rt.Header]
        ELSE [req |-> [timed EXCEPT
                          !.Header = HeaderSet(@, <<120, 45, 97, 109, 122, 45, 99, 111, 110, 116, 101, 110, 116, 45, 115, 104, 97, 50, 53, 54>>, hash)],
              t |-> rt.t, payloadHash |-> hash, timed |-> rt.Header]

\* Sign, from the canonical request on: the string to sign, the signature, and
\* the X-Amz-Signature parameter or the Authorization header.
SignAttach(b, last) ==
    LET cr == canonicalRequest(b.req, b.payloadHash, last)
        r == [b.req EXCEPT !.Header = cr.Header]
        sts == stringToSign(b.t, cr.creq)
        sgn == signature(b.t, sts)
        authz == authorization(r.Header, b.t, sgn)
    IN  [req |-> IF IsPresigned(r)
                 THEN [r EXCEPT !.Form = FormPut(@, <<88, 45, 65, 109, 122, 45, 83, 105, 103, 110, 97, 116, 117, 114, 101>>, sgn)]
                 ELSE [r EXCEPT !.Header = HeaderSet(@, <<65, 117, 116, 104, 111, 114, 105, 122, 97, 116, 105, 111, 110>>, authz)],
         creq |-> cr.creq, sts |-> sts, signature |-> sgn, auth |-> authz]

\* ------------------------------------------------------------- signer inputs
\* A map with one name.
OneEntry(name, values) == [k \in {name} |-> values]
\* Two maps with different names, as one.
Merge(f, g) == [k \in DOMAIN f \cup DOMAIN g |-> IF k \in DOMAIN f THEN f[k] ELSE g[k]]

\* The header maps handed to canonicalHeaders: names written as the methods of
\* http.Header write them ("Host") and as a map literal does ("x-amz-acl" in
\* InitMulti, "host"), each with up to MaxValues values.
HeaderNames == {<<72, 111, 115, 116>>, <<104, 111, 115, 116>>, <<120, 45, 97, 109, 122, 45, 97, 99, 108>>}
HeaderValues == {<<32, 97, 32>>, <<98>>}
ValueLists == UNION {[1 .. n -> HeaderValues] : n \in 1 .. MaxValues}
HeaderInputs == UNION {[names -> ValueLists] : names \in SUBSET HeaderNames}

\* The raw queries handed to canonicalQueryString: up to MaxPairs pairs, as
\* url.Values.Encode writes them, a name or a value holding a space or a "+".
RawPairs ==
    {<<QueryEscape(name), QueryEscape(value)>> :
        name \in {<<97>>, <<98, 32, 99>>}, value \in {<<49>>, <<50, 32, 51>>, <<43>>}}
QueryInputs == SeqsUpTo(RawPairs, MaxPairs)

\* The requests handed to Sign: a date in the x-amz-date header (in either
\* format, or not a date), in the date header, or in none; the x-amz-acl header
\* of InitMulti; with and without the X-Amz-Expires parameter. The names of
\* the date headers are spelled as http.Header spells them.
XAmzDateHeaders ==
    {<<>>} \cup {OneEntry(<<88, 45, 65, 109, 122, 45, 68, 97, 116, 101>>, <<v>>) : v \in {FormatISO(10), FormatHTTP(11), <<120>>}}
DateHeaders == {<<>>} \cup {OneEntry(<<68, 97, 116, 101>>, <<v>>) : v \in {FormatHTTP(20), <<120>>}}
AclHeaders == {<<>>, OneEntry(<<120, 45, 97, 109, 122, 45, 97, 99, 108>>, <<<<32, 112>>>>)}
Forms ==
    {Merge(e, p) : e \in {<<>>, OneEntry(<<88, 45, 65, 109, 122, 45, 69, 120, 112, 105, 114, 101, 115>>, <<<<54, 48>>>>)},
                   p \in {<<>>, OneEntry(<<117, 112, 108, 111, 97, 100, 73, 100>>, <<<<117, 32, 49>>>>)}}
SignInputs ==
    {[Method |-> <<71, 69, 84>>, Host |-> <<115, 51>>, Path |-> <<47, 107>>, RawQuery |-> Encode(form),
      Header |-> Merge(Merge(x, d), a), Form |-> form] :
        x \in XAmzDateHeaders, d \in DateHeaders, a \in AclHeaders, form \in Forms}
\* The payload hashes a caller passes: none, or the hash of its payload.
PayloadHashes == {<<>>, SHA256Hex(<<112>>)}
\* The times of the clock.
Clock == {12, 21}

\* ------------------------------------------------------------- canonicalHeaders alone
HeadersInit ==
    /\ Idle
    /\ strategy = MaxAttempts
    /\ req \in {[NoRequest EXCEPT !.Header = h] : h \in HeaderInputs}
    /\ now = 0
    /\ sig = NoSig
    /\ out = NoOut

\* One call of canonicalHeaders on the header map of the request.
canonicalHeadersCall ==
    /\ out.fn = "none"
    /\ \E last \in LastKeys(req.Header) :
         LET c == canonicalHeaders(req.Header, last)
         IN  /\ out' = [fn |-> "canonicalHeaders", arg |-> req.Header, val |-> c.out]
             /\ req' = [req EXCEPT !.Header = c.Header]
    /\ UNCHANGED <<now, sig>>
    /\ UNCHANGED <<multiVars, concVars>>

HeadersNext == canonicalHeadersCall

HeadersSpec == HeadersInit /\ [][HeadersNext]_vars

\* ------------------------------------------------------------- canonicalQueryString alone
QueryInit ==
    /\ Idle
    /\ strategy = MaxAttempts
    /\ req \in {[NoRequest EXCEPT !.RawQuery = raw] : raw \in QueryInputs}
    /\ now = 0
    /\ sig = NoSig
    /\ out = NoOut

\* One call of canonicalQueryString on the URL of the request.
canonicalQueryStringCall ==
    /\ out.fn = "none"
    /\ out' = [fn |-> "canonicalQueryString", arg |-> req.RawQuery,
               val |-> canonicalQueryString(req.RawQuery)]
    /\ UNCHANGED <<req, now, sig>>
    /\ UNCHANGED <<multiVars, concVars>>

QueryNext == canonicalQueryStringCall

QuerySpec == QueryInit /\ [][QueryNext]_vars

\* ------------------------------------------------------------- Sign
SignInit ==
    /\ Idle
    /\ strategy = MaxAttempts
    /\ req \in SignInputs
    /\ now \in Clock
    /\ sig = NoSig
    /\ out = NoOut

\* func (s *V4Signer) Sign(req *http.Request, payloadHash string) (err error)
\* One pass of Sign over the request, which may have been signed before. now
\* is what time.Now() returns during the pass; the clock does not go back.
Sign ==
    /\ sig.calls < MaxSigns
    /\ \E payloadHash \in PayloadHashes :
         \E b \in {SignPrepare(req, payloadHash, now)} :
           \E last \in LastKeys(b.req.Header) :
             \E a \in {SignAttach(b, last)} :
               /\ req' = a.req
               /\ sig' = [calls |-> sig.calls + 1, pre |-> req, arg |-> payloadHash,
                          clock |-> now, t |-> b.t, payloadHash |-> b.payloadHash,
                          timed |-> b.timed, creq |-> a.creq, sts |-> a.sts,
                          signature |-> a.signature, auth |-> a.auth,
                          first |-> IF sig.calls = 0 THEN a.auth ELSE sig.first]
    /\ now' \in {c \in Clock : c >= now}
    /\ UNCHANGED out
    /\ UNCHANGED <<multiVars, concVars>>

SignNext == Sign

SignSpec == SignInit /\ [][SignNext]_vars

\* ------------------------------------------------------------- properties
Last(s) == s[Len(s)]

\* The part numbers of a manifest, in the order of its Part elements.
ManifestNumbers(body) == [i \in 1 .. Len(body) |-> body[i][2]]
\* The (part number, ETag) pairs of a manifest, and of a list of parts.
ManifestPairs(body) == SeqToBag([i \in 1 .. Len(body) |-> <<body[i][2], body[i][3]>>])
PartPairs(ps) == SeqToBag([i \in 1 .. Len(ps) |-> <<ps[i].N, ps[i].ETag>>])

\* C1: in every request Complete sends, the part numbers of the manifest in the
\* body are in ascending order, whatever the order of the caller's list.
C1_ManifestAscending ==
    op = "Complete" =>
        \A k \in 1 .. Len(reqs) :
            LET ns == ManifestNumbers(reqs[k].body)
            IN  \A i, j \in 1 .. Len(ns) : i < j => ns[i] <= ns[j]

\* A Complete request has been sent for a list that was not in ascending order.
C1_Witness ==
    /\ op = "Complete"
    /\ Len(reqs) > 0
    /\ \E i \in 1 .. Len(arg.parts) - 1 : arg.parts[i].N > arg.parts[i + 1].N

\* C2: the manifest of every request of a Complete call holds exactly the
\* (part number, ETag) pairs of the caller's list, each as often as it is in
\* the list, and every attempt of the call sends the same manifest.
C2_ManifestExact ==
    op = "Complete" =>
        \A k \in 1 .. Len(reqs) :
            /\ ManifestPairs(reqs[k].body) = PartPairs(arg.parts)
            /\ Len(reqs[k].body) = Len(arg.parts)
            /\ reqs[k].body = reqs[1].body

\* Complete has sent a retry for a list that holds one pair twice.
C2_Witness ==
    /\ op = "Complete"
    /\ Len(reqs) >= 2
    /\ Len(arg.parts) = 2
    /\ arg.parts[1].N = arg.parts[2].N
    /\ arg.parts[1].ETag = arg.parts[2].ETag

\* C3: when ListParts returns successfully, its result holds the parts of all
\* the pages fetched, each as often as the pages hold it, in ascending order of
\* part number.
C3_ListPartsSortedAll ==
    (op = "ListParts" /\ pc = "done" /\ ret.err = Nil) =>
        /\ SeqToBag(ret.val) = SeqToBag(fetched)
        /\ Len(ret.val) = Len(fetched)
        /\ \A i, j \in 1 .. Len(ret.val) : i < j => ret.val[i].N <= ret.val[j].N

\* ListParts returned two pages whose parts came in descending order.
C3_Witness ==
    /\ op = "ListParts"
    /\ pc = "done"
    /\ ret.err = Nil
    /\ hist.pages = 2
    /\ Len(fetched) = 2
    /\ fetched[1].N > fetched[2].N

\* The marker of the request for the page that follows k fetched pages.
MarkerAfter(k) == IF k = 0 THEN <<>> ELSE <<k>>
\* The pages fetched before the last request of a listing was sent.
PagesBeforeLast == IF resp.code = Nil THEN hist.pages - 1 ELSE hist.pages

\* C4: in ListParts, a request that follows a retried failure asks for the same
\* page again, and a request that follows a fetched page asks for the next one:
\* the marker of every request is the marker of the pages fetched before it.
\* The parts of the fetched pages are kept, and the requests sent are one per
\* fetched page and one per failure.
C4_RetrySamePage ==
    fn = "ListParts" =>
        /\ acc = fetched
        /\ Len(reqs) = hist.pages + hist.retried
                       + (IF pc = "done" /\ ret.err # Nil THEN 1 ELSE 0)
        /\ marker = MarkerAfter(IF pc = "done" /\ ret.err = Nil
                                THEN hist.pages - 1 ELSE hist.pages)
        /\ resp # NoResp => Last(reqs).marker = MarkerAfter(PagesBeforeLast)

\* ListParts succeeded with two pages, the second one after a retried failure.
C4_Witness ==
    /\ op = "ListParts"
    /\ pc = "done"
    /\ ret.err = Nil
    /\ hist.pages = 2
    /\ hist.retried = 1
    /\ Len(reqs) = 3
    /\ reqs[2].marker = <<1>>
    /\ reqs[3].marker = <<1>>
    /\ Len(fetched) = 2

\* C5: in ListParts and ListMulti the attempts used of the budget are those of
\* the page in flight alone: the Attempt counts the failures of the current
\* page (and the attempt in flight), and a retryable error is returned only
\* when the page in flight has itself used the whole budget.
C5_BudgetPerPage ==
    /\ fn \in {"ListParts", "ListMulti"} =>
           /\ pc = "loop" => attempt = hist.curFails
           /\ pc \in {"body", "done"} => attempt = hist.curFails + 1
           /\ pc # "panic"
    /\ ((op \in {"ListParts", "ListMulti"} /\ pc = "done")
            \/ (op = "Multi" /\ pc = "after")) =>
           (shouldRetry(ret.err) => hist.curFails + 1 = strategy)

\* A listing succeeded although its pages failed, in total, as often as the
\* budget of one page allows attempts.
C5_Witness ==
    /\ op \in {"ListParts", "ListMulti"}
    /\ pc = "done"
    /\ ret.err = Nil
    /\ hist.pages = 2
    /\ hist.retried >= strategy

\* C6: when run succeeds and the response has an empty ETag, PutPartHash
\* returns an error and the zero Part, at once: it does not go on to another
\* attempt.
C6_NoETagFails ==
    (fn = "PutPartHash" /\ resp.status = 200 /\ resp.code = Nil /\ resp.etag = "") =>
        /\ pc = "done"
        /\ ret.err = NoETagError
        /\ ret.val = <<ZeroPart>>
        /\ Len(reqs) = hist.iters

\* PutPartHash got a response without ETag while attempts remained.
C6_Witness ==
    /\ fn = "PutPartHash"
    /\ resp.status = 200
    /\ resp.code = Nil
    /\ resp.etag = ""
    /\ AttemptHasNext(attempt)

\* C7: every request of PutPartHash, of the first attempt and of each retry,
\* is sent with the payload source at offset 0; when the rewind fails the call
\* returns that error at once, and the attempt sends no request.
C7_RewindEveryAttempt ==
    fn = "PutPartHash" =>
        /\ \A k \in 1 .. Len(reqs) : reqs[k].offset = 0
        /\ Len(reqs) <= hist.iters
        /\ ret.err = "SeekError" =>
               /\ pc = "done"
               /\ ret.val = <<ZeroPart>>
               /\ Len(reqs) = hist.iters - 1

\* PutPartHash retries after the transport read the payload.
C7_Witness ==
    /\ fn = "PutPartHash"
    /\ Len(reqs) = 2
    /\ hist.retried = 1
    /\ pc = "done"
    /\ ret.err = Nil

\* The rewind fails on a retry.
C7_WitnessSeekFails ==
    /\ fn = "PutPartHash"
    /\ pc = "done"
    /\ ret.err = "SeekError"
    /\ Len(reqs) = 1

\* The initiate requests among the requests sent.
InitiateRequests == {k \in 1 .. Len(reqs) : reqs[k].method = "POST" /\ reqs[k].uploads}

\* Multi returned what InitMulti returns: the new session, or the error of the
\* last initiate request.
ReturnedInitiate ==
    /\ InitiateRequests # {}
    /\ Last(reqs).method = "POST"
    /\ ret.err = query(resp)
    /\ ret.err = Nil =>
           /\ Len(ret.val) = 1
           /\ ret.val[1].Key = arg.key
           /\ ret.val[1].UploadId \in UploadIds

\* C8: when the listing of Multi ends with NoSuchUpload, Multi sends an
\* initiate request and returns the new session or the error of the initiate;
\* when it ends with another error, Multi returns that error and sends no
\* initiate request.
C8_NoSuchUploadInitiates ==
    (op = "Multi" /\ hist.listErr \notin {"none", Nil}) =>
        IF hasCode(hist.listErr, "NoSuchUpload")
        THEN /\ pc # "after" => fn = "InitMulti"
             /\ pc = "done" => ReturnedInitiate
        ELSE /\ InitiateRequests = {}
             /\ pc \in {"after", "done"}
             /\ pc = "done" => ret = Return(<<>>, <<>>, hist.listErr)

\* Multi returned a new session after its listing ended with NoSuchUpload.
C8_Witness ==
    /\ op = "Multi"
    /\ pc = "done"
    /\ hist.listErr = "NoSuchUpload"
    /\ ret.err = Nil
    /\ Len(ret.val) = 1

\* Another listing error was returned by Multi.
C8_WitnessOther ==
    /\ op = "Multi"
    /\ pc = "done"
    /\ hist.listErr = "AccessDenied"
    /\ ret.err = "AccessDenied"

\* The uploads of the requested key among those the service listed.
ListedWithKey == {k \in 1 .. Len(fetched) : fetched[k].Key = arg.key}

\* Multi returned a listed session of the key and sent no initiate request.
ReturnedOld ==
    /\ InitiateRequests = {}
    /\ ret.err = Nil
    /\ Len(ret.val) = 1
    /\ \E k \in ListedWithKey : ret.val[1] = fetched[k]

C9_WitnessInitiate ==
    /\ op = "Multi"
    /\ pc = "done"
    /\ hist.listErr = Nil
    /\ Len(fetched) > 0
    /\ ListedWithKey = {}
    /\ ret.err = Nil

C10_WitnessRetry ==
    /\ fn = "Complete"
    /\ pc = "loop"
    /\ resp.status = 200
    /\ resp.code = "InternalError"

\* ------------------------------------------------------------- C11
\* The header maps that differ from h in the order of the values of its names.
Reordered(h) ==
    {g \in [DOMAIN h -> UNION {PermsOf(h[k]) : k \in DOMAIN h}] :
        \A k \in DOMAIN h : g[k] \in PermsOf(h[k])}

\* C11: canonicalHeaders gives the same output for every insertion order of the
\* headers and every order of the values of a repeated header: whatever the
\* order in which the map is ranged over and in which the values of a name are
\* held, the string returned is the one this call returned.
C11_OrderIndependent ==
    out.fn = "canonicalHeaders" =>
        \A h \in Reordered(out.arg) :
            \A last \in LastKeys(h) : canonicalHeaders(h, last).out = out.val

\* ------------------------------------------------------------- C12
\* C12: canonicalQueryString gives the same output for every order in which the
\* query parameters, and the several values of one parameter, are supplied:
\* every reordering of the pairs of the raw query yields the string this call
\* returned.
C12_OrderIndependent ==
    out.fn = "canonicalQueryString" =>
        \A raw \in PermsOf(out.arg) : canonicalQueryString(raw) = out.val

\* ------------------------------------------------------------- C13
\* The number of places of s at which sub starts.
Occurrences(s, sub) ==
    Cardinality({i \in 1 .. Len(s) - Len(sub) + 1 : SubSeq(s, i, i + Len(sub) - 1) = sub})
\* The number of bytes c in the names and values of the parameters of a raw query.
BytesOf(raw, c) ==
    LET count(s) == Cardinality({i \in 1 .. Len(s) : s[i] = c})
        Sum[i \in 0 .. Len(raw)] ==
            IF i = 0 THEN 0
            ELSE Sum[i - 1] + count(QueryUnescape(raw[i][1])) + count(QueryUnescape(raw[i][2]))
    IN  Sum[Len(raw)]

\* C13: the output of canonicalQueryString contains no "+": each space of a
\* parameter name or value appears as "%20" and each "+" of a name or value as
\* "%2B", so that the output holds as many "%20" as the parameters hold spaces
\* and as many "%2B" as they hold "+".
C13_SpaceIsPercent20 ==
    out.fn = "canonicalQueryString" =>
        /\ \A i \in 1 .. Len(out.val) : out.val[i] # 43
        /\ Occurrences(out.val, <<37, 50, 48>>) = BytesOf(out.arg, 32)
        /\ Occurrences(out.val, <<37, 50, 66>>) = BytesOf(out.arg, 43)

\* A call on a query with a space in a name, a space in a value and a "+" in a
\* value.
C13_Witness ==
    /\ out.fn = "canonicalQueryString"
    /\ \E i, j, k \in 1 .. Len(out.arg) :
         /\ 32 \in {QueryUnescape(out.arg[i][1])[n] : n \in 1 .. Len(QueryUnescape(out.arg[i][1]))}
         /\ QueryUnescape(out.arg[j][2]) = <<50, 32, 51>>
         /\ QueryUnescape(out.arg[k][2]) = <<43>>
    /\ Occurrences(out.val, <<37, 50, 48>>) >= 2
    /\ Occurrences(out.val, <<37, 50, 66>>) >= 1

\* ------------------------------------------------------------- C14
\* The name of the header that carries the signature.
Authorization == <<65, 117, 116, 104, 111, 114, 105, 122, 97, 116, 105, 111, 110>>

\* C14: Sign applied twice to the same request with the same resolved timestamp
\* (and the one signer of the model: the same credentials, region and service)
\* yields the same Authorization header value both times: after a second pass
\* in header mode that resolved the time of the first, the request carries the
\* Authorization value the first pass gave it. (The second pass is one with the
\* payload hash of the first.)
C14_SameAuthorization ==
    (/\ sig.calls = 2
     /\ ~IsPresigned(req)
     /\ HeaderGet(sig.pre.Header, Authorization) = sig.first
     /\ HeaderGet(sig.pre.Header, <<120, 45, 97, 109, 122, 45, 99, 111, 110, 116, 101, 110, 116, 45, 115, 104, 97, 50, 53, 54>>) = sig.payloadHash
     /\ requestTime(sig.pre.Header, sig.clock).t = sig.t)
        => HeaderGet(req.Header, Authorization) = sig.first

\* ------------------------------------------------------------- C15
\* The first place of s at which sub starts, 0 when there is none.
IndexOf(s, sub) ==
    LET at == {i \in 1 .. Len(s) - Len(sub) + 1 : SubSeq(s, i, i + Len(sub) - 1) = sub}
    IN  IF at = {} THEN 0 ELSE CHOOSE i \in at : \A j \in at : i <= j
\* The pieces of s between the bytes c.
Split(s, c) ==
    LET isSep(i) == s[i] = c
        seps == SelectSeq([i \in 1 .. Len(s) |-> i], isSep)
        from(k) == IF k = 1 THEN 1 ELSE seps[k - 1] + 1
        to(k) == IF k = Len(seps) + 1 THEN Len(s) ELSE seps[k] - 1
    IN  [k \in 1 .. Len(seps) + 1 |-> SubSeq(s, from(k), to(k))]
\* The names of the SignedHeaders field of an Authorization header value: what
\* stands between "SignedHeaders=" and the next comma, split at the semicolons.
SignedHeadersOf(authz) ==
    LET start == IndexOf(authz, <<83, 105, 103, 110, 101, 100, 72, 101, 97, 100, 101, 114, 115, 61>>)
        rest == SubSeq(authz, start + Len(<<83, 105, 103, 110, 101, 100, 72, 101, 97, 100, 101, 114, 115, 61>>), Len(authz))
    IN  IF start = 0 THEN <<>> ELSE Split(Split(rest, 44)[1], 59)
\* The signed-header list the request carries after a pass of Sign: the one of
\* its X-Amz-SignedHeaders parameter in query mode, of its Authorization
\* header otherwise.
SignedList ==
    IF IsPresigned(req)
    THEN IF <<88, 45, 65, 109, 122, 45, 83, 105, 103, 110, 101, 100, 72, 101, 97, 100, 101, 114, 115>> \in DOMAIN req.Form
         THEN Split(req.Form[<<88, 45, 65, 109, 122, 45, 83, 105, 103, 110, 101, 100, 72, 101, 97, 100, 101, 114, 115>>][1], 59) ELSE <<>>
    ELSE SignedHeadersOf(HeaderGet(req.Header, Authorization))

\* C15: after every call of Sign, in header mode and in query mode, the
\* signed-header list contains host, and the request's host header equals the
\* request's Host.
C15_HostSigned ==
    sig.calls > 0 =>
        /\ \E i \in 1 .. Len(SignedList) : SignedList[i] = <<104, 111, 115, 116>>
        /\ HeaderGet(req.Header, <<104, 111, 115, 116>>) = req.Host
        /\ req.Host = sig.pre.Host

\* A pass in query mode over a request that came without a host header but
\* with other headers: the list names them and host.
C15_Witness ==
    /\ sig.calls = 1
    /\ IsPresigned(req)
    /\ <<72, 111, 115, 116>> \notin DOMAIN sig.pre.Header
    /\ SignedList = <<<<100, 97, 116, 101>>, <<104, 111, 115, 116>>, <<120, 45, 97, 109, 122, 45, 97, 99, 108>>>>
    /\ req.Header[<<72, 111, 115, 116>>] = <<<<115, 51>>>>

\* ------------------------------------------------------------- C16
\* The time a header value holds in one of the formats, in a set: the empty
\* set when it holds none.
TimeIn(value, formats) ==
    (IF "iso" \in formats THEN ParseISO(value) ELSE {})
        \cup (IF "http" \in formats THEN ParseHTTP(value) ELSE {})
\* The lines of a string.
Lines(s) == Split(s, 10)

\* C16: Sign takes as request time the x-amz-date header when it holds a valid
\* timestamp, otherwise the date header when that parses, otherwise the current
\* time, which it then attaches to the request as a new x-amz-date header; the
\* one resolved time is the time of the string to sign, of the credential scope
\* and of the derived key of that pass.
C16_RequestTime ==
    sig.calls > 0 =>
        LET xamz == TimeIn(HeaderGet(sig.pre.Header, <<120, 45, 97, 109, 122, 45, 100, 97, 116, 101>>), {"iso", "http"})
            date == TimeIn(HeaderGet(sig.pre.Header, <<100, 97, 116, 101>>), {"http"})
        IN  /\ xamz # {} => sig.t \in xamz
            /\ xamz = {} /\ date # {} => sig.t \in date
            /\ xamz = {} /\ date = {} =>
                 /\ sig.t = sig.clock
                 /\ HeaderGet(sig.timed, <<120, 45, 97, 109, 122, 45, 100, 97, 116, 101>>) = FormatISO(sig.clock)
                 /\ ~IsPresigned(req) => HeaderGet(req.Header, <<120, 45, 97, 109, 122, 45, 100, 97, 116, 101>>) = FormatISO(sig.clock)
                 /\ IsPresigned(req) => req.Form[<<88, 45, 65, 109, 122, 45, 68, 97, 116, 101>>] = <<FormatISO(sig.clock)>>
            /\ Lines(sig.sts)[2] = FormatISO(sig.t)
            /\ Lines(sig.sts)[3] = credentialScope(sig.t)
            /\ SubSeq(Lines(sig.sts)[3], 1, 1) = FormatShort(sig.t)
            /\ sig.signature = Hex(HMAC(derivedKey(sig.t), sig.sts))
            /\ IndexOf(sig.auth, <<67, 114, 101, 100, 101, 110, 116, 105, 97, 108, 61>> \o auth.AccessKey \o <<47>> \o credentialScope(sig.t) \o <<44>>) > 0

\* A pass over a request whose x-amz-date header holds no date and whose date
\* header holds one, of another day than the clock's: the time of the date
\* header is the time signed.
C16_Witness ==
    /\ sig.calls = 1
    /\ HeaderGet(sig.pre.Header, <<120, 45, 97, 109, 122, 45, 100, 97, 116, 101>>) = <<120>>
    /\ ParseHTTP(HeaderGet(sig.pre.Header, <<100, 97, 116, 101>>)) = {20}
    /\ sig.clock = 12
    /\ sig.t = 20
    /\ Lines(sig.sts)[2] = <<50, 84, 48, 90>>

\* ------------------------------------------------------------- C17
\* The names of the parameters of the query line of a canonical request.
CanonicalQueryNames(creq) ==
    LET pairs == Split(Lines(creq)[3], 38)
    IN  {Split(pairs[i], 61)[1] : i \in 1 .. Len(pairs)}

\* C17: when the request has an X-Amz-Expires parameter, Sign signs in query
\* mode: the payload hash used is the literal UNSIGNED-PAYLOAD whatever hash
\* the caller supplied, the request carries no date header after signing, the
\* X-Amz-Algorithm, X-Amz-Credential, X-Amz-Date and X-Amz-SignedHeaders
\* parameters are in the canonical request, the signature is the
\* X-Amz-Signature parameter, and no Authorization header is set.
C17_QueryMode ==
    (sig.calls > 0 /\ IsPresigned(sig.pre)) =>
        /\ sig.payloadHash = <<85, 78, 83, 73, 71, 78, 69, 68, 45, 80, 65, 89, 76, 79, 65, 68>>
        /\ Last(Lines(sig.creq)) = <<85, 78, 83, 73, 71, 78, 69, 68, 45, 80, 65, 89, 76, 79, 65, 68>>
        /\ HeaderGet(req.Header, <<120, 45, 97, 109, 122, 45, 100, 97, 116, 101>>) = <<>>
        /\ HeaderGet(req.Header, <<100, 97, 116, 101>>) = <<>>
        /\ {<<88, 45, 65, 109, 122, 45, 65, 108, 103, 111, 114, 105, 116, 104, 109>>, <<88, 45, 65, 109, 122, 45, 67, 114, 101, 100, 101, 110, 116, 105, 97, 108>>, <<88, 45, 65, 109, 122, 45, 68, 97, 116, 101>>, <<88, 45, 65, 109, 122, 45, 83, 105, 103, 110, 101, 100, 72, 101, 97, 100, 101, 114, 115>>}
               \subseteq CanonicalQueryNames(sig.creq) \cap DOMAIN req.Form
        /\ req.Form[<<88, 45, 65, 109, 122, 45, 83, 105, 103, 110, 97, 116, 117, 114, 101>>] = <<sig.signature>>
        /\ Authorization \notin DOMAIN req.Header

\* ------------------------------------------------------------- C18
\* The operations whose loop is followed by panic("unreachable").
PanicLoops == {"ListMulti", "PutPartHash", "ListParts", "Complete", "Abort"}

\* C18: no multipart operation ever reaches its panic("unreachable"): under an
\* attempt policy whose first Next is true and whose Next is true whenever the
\* preceding HasNext was true, the loop is left only by a return, so that its
\* head is reached only with an attempt left.
C18_NoPanic ==
    /\ pc # "panic"
    /\ (pc = "loop" /\ fn \in PanicLoops) => AttemptNext(attempt)

\* An operation returned a retryable error from the last attempt of its budget,
\* after a retried failure: the return that keeps the loop from its end.
C18_Witness ==
    /\ fn \in PanicLoops
    /\ pc = "done"
    /\ strategy = MaxAttempts
    /\ attempt = strategy
    /\ hist.retried = strategy - 1
    /\ shouldRetry(ret.err)

\* ------------------------------------------------------------- C19
\* The errors an attempt of PutPartHash can end with before or after its
\* request: of Seek, of prepare, and of a response without an ETag.
LocalErrors == {"SeekError", "PrepareError", NoETagError}
\* The operation has returned to its caller.
Returned == pc = "done"
\* The last attempt got a response, and the response is a success.
LastAttemptSucceeded == resp # NoResp /\ query(resp) = Nil

\* C19: a multipart operation returns an error only when that error is
\* non-retryable or the attempt budget is exhausted, and the error it returns
\* is the error of the last attempt it made; a retryable failure followed by a
\* successful attempt within the budget is not visible to the caller, and a
\* non-retryable failure ends the operation with no further request.
C19_LastErrorSurfaces ==
    /\ (Returned /\ ret.err # Nil) =>
           /\ ~shouldRetry(ret.err) \/ ~AttemptHasNext(attempt)
           /\ IF query(resp) # Nil
              THEN ret.err = query(resp)
              ELSE ret.err \in LocalErrors /\ fn = "PutPartHash"
    /\ (Returned /\ LastAttemptSucceeded
            /\ ~(fn = "PutPartHash" /\ resp.etag = "")) => ret.err = Nil
    /\ (query(resp) # Nil /\ ~shouldRetry(query(resp))) =>
           \/ Returned /\ ret.err = query(resp)
           \/ op = "Multi" /\ fn = "Multi" /\ pc = "after" /\ ret.err = query(resp)
    /\ (pc \in {"loop", "body"} /\ hist.retried > 0) =>
           (query(resp) # Nil => shouldRetry(query(resp)))

\* An operation returned success after a retryable failure, and the caller got
\* no error: the requests made are the failed one and the successful one.
C19_Witness ==
    /\ op = "Complete"
    /\ Returned
    /\ ret.err = Nil
    /\ hist.retried = 1
    /\ Len(reqs) = 2
    /\ LastAttemptSucceeded

\* An operation returned a non-retryable error from its first attempt, with
\* attempts left.
C19_WitnessNonRetryable ==
    /\ op = "Abort"
    /\ Returned
    /\ ret.err = "AccessDenied"
    /\ Len(reqs) = 1
    /\ AttemptHasNext(attempt)

\* ------------------------------------------------------------- C20
\* The service is free to answer a listing with truncated pages without end.
\* The histories hold the first MaxPages pages of a listing; a truncated page
\* beyond them is received as the others are (the next page gets a fresh
\* Attempt and the loop goes on), but is not recorded: it is taken to be empty,
\* and the iteration that fetched it is taken off the count of iterations.
ListPartsMore ==
    /\ pc = "body"
    /\ fn = "ListParts"
    /\ hist.pages + 1 >= MaxPages
    /\ hist.curFails = 0
    /\ resp' = Response(200, Nil, "")
    /\ attempt' = AfterPageStart(attempt)
    /\ pc' = "loop"
    /\ hist' = [hist EXCEPT !.iters = @ - 1]
    /\ UNCHANGED <<signerVars, concVars>>
    /\ UNCHANGED <<op, fn, arg, m, strategy, marker, acc, prefixes, data, pos, err,
                   reqs, fetched, ret>>

ListMultiMore ==
    /\ pc = "body"
    /\ fn = "ListMulti"
    /\ hist.pages + 1 >= MaxPages
    /\ hist.curFails = 0
    /\ resp' = Response(200, Nil, "")
    /\ attempt' = AfterPageStart(attempt)
    /\ pc' = "loop"
    /\ hist' = [hist EXCEPT !.iters = @ - 1]
    /\ UNCHANGED <<signerVars, concVars>>
    /\ UNCHANGED <<op, fn, arg, m, strategy, marker, acc, prefixes, data, pos, err,
                   reqs, fetched, ret>>

PagingNext ==
    \/ Next
    \/ ListPartsMore
    \/ ListMultiMore

\* The operations with a service that may list without end. The calling thread
\* keeps running and every request is answered: a step that can be taken is
\* taken in the end.
PagingSpec == Init /\ [][PagingNext]_vars /\ WF_vars(PagingNext)

\* The loop of a listing is at its head with a truncated page just received.
TruncatedPage ==
    /\ pc = "loop"
    /\ fn \in {"ListParts", "ListMulti"}
    /\ resp = Response(200, Nil, "")

\* C20, as claimed: every public multipart operation eventually returns to its
\* caller, for every sequence of responses of the service and a finite attempt
\* budget.
C20_Original == <>Returned

\* C20, amended: every public multipart operation eventually returns to its
\* caller, unless the service answers a listing with truncated pages again and
\* again without end.
C20_ReturnsUnlessEndlessListing == []<>(Returned \/ TruncatedPage)

\* A listing returned with all its pages, the last of them after a retried
\* failure.
C20_Witness ==
    /\ op \in {"ListParts", "ListMulti"}
    /\ Returned
    /\ ret.err = Nil
    /\ hist.pages = MaxPages
    /\ hist.curFails = 1

\* ------------------------------------------------------------- C21
\* The zero values a failed call returns in place of a result: nil for a
\* list or a handle, Part{} for a part.
NoResult == {<<>>, <<ZeroPart>>}

\* C21: an operation never returns a partial result. Whenever a call has
\* returned (to the caller, or ListMulti into Multi) with an error, it returned
\* no items and no prefixes, even when earlier pages of the listing had been
\* fetched; and Part{} is returned only together with an error.
C21_NoPartialResult ==
    (Returned \/ pc = "after") =>
        /\ ret.err # Nil => ret.val \in NoResult /\ ret.prefixes = <<>>
        /\ ret.val = <<ZeroPart>> => ret.err # Nil

\* A listing that failed on its second page after a first page with items
\* was fetched, and returned the error.
C21_Witness ==
    /\ Returned
    /\ op \in {"ListParts", "ListMulti"}
    /\ hist.pages = 1
    /\ fetched # <<>>
    /\ ret.err # Nil
    /\ ret.val = <<>>

\* ------------------------------------------------------------- C22
\* The names of the lines of a canonical header block: what stands before the
\* first colon of each line.
CanonicalNames(block) ==
    [i \in 1 .. Len(Lines(block)) |-> Split(Lines(block)[i], 58)[1]]
\* No element of the sequence s occurs in it twice.
NoDuplicates(s) == \A i, j \in 1 .. Len(s) : s[i] = s[j] => i = j

\* C22: for every header map, the list signedHeaders gives names exactly the
\* headers canonicalHeaders canonicalizes: the names of the list are the names
\* of the lines of the block this call returned, in the same order, and each
\* name is there once.
C22_SignedNamesMatch ==
    out.fn = "canonicalHeaders" =>
        /\ Split(signedHeaders(out.arg), 59) = CanonicalNames(out.val)
        /\ NoDuplicates(Split(signedHeaders(out.arg), 59))

\* ------------------------------------------------------------- C25
\* The lines of the canonical header block of a canonical request: what
\* stands after the method, the URI and the query, up to the empty line, the
\* signed-header list and the payload hash that end the request.
HeaderLinesOf(creq) == SubSeq(Lines(creq), 4, Len(Lines(creq)) - 3)
\* The lines of the block that canonicalize the header named k.
LinesOfHeader(creq, k) ==
    LET name == ToLower(k) \o <<58>>
        isOfName(l) == Len(l) >= Len(name) /\ SubSeq(l, 1, Len(name)) = name
    IN  SelectSeq(HeaderLinesOf(creq), isOfName)

HandleBefore == [Bucket |-> "sample", Key |-> "multi", UploadId |-> "u0"]

\* C23: two PutPartHash calls that run concurrently on one Multi, with
\* different part numbers and payload sources of their own, do not interfere.
\* Under every interleaving of their attempts, a call that has returned
\* without an error returned the Part with its own number, its own size and
\* the ETag of its own last response, a call that returned an error returned
\* Part{}, every request a call sent carries its own part number and the
\* upload id of the handle, and Bucket, Key and UploadId of the handle are what
\* they were.
C23_NoInterference ==
    /\ m = HandleBefore
    /\ \A c \in CallIds :
         /\ calls[c].sent # <<>> =>
                /\ calls[c].sent[1].partNumber = calls[c].n
                /\ calls[c].sent[1].uploadId = HandleBefore.UploadId
                /\ calls[c].sent[1].path = HandleBefore.Key
         /\ (calls[c].fn = "PutPartHash" /\ calls[c].pc = "done") =>
                IF calls[c].ret.err = Nil
                THEN /\ calls[c].resp.code = Nil
                     /\ calls[c].ret.val = <<[N |-> calls[c].n,
                                              ETag |-> calls[c].resp.etag,
                                              Size |-> calls[c].partSize]>>
                ELSE calls[c].ret.val = <<ZeroPart>>

\* Both calls have returned their parts, with different numbers, sizes and
\* ETags, the one after a retry made while the other was running.
C23_Witness ==
    /\ \A c \in CallIds :
         /\ calls[c].fn = "PutPartHash"
         /\ calls[c].pc = "done"
         /\ calls[c].ret.err = Nil
    /\ calls["first"].attempt = 2
    /\ calls["first"].ret.val[1].N = 2
    /\ calls["second"].ret.val[1].N = 1
    /\ calls["first"].ret.val[1].ETag # calls["second"].ret.val[1].ETag
    /\ calls["first"].ret.val[1].Size # calls["second"].ret.val[1].Size

\* ------------------------------------------------------------- C24
\* The call c has returned.
CallReturned(c) == calls[c].pc = "done"
\* The call c has returned without an error.
CallSucceeded(c) == CallReturned(c) /\ calls[c].ret.err = Nil

\* C24: when Complete and Abort run concurrently on one upload, the service's
\* response decides the outcome under every interleaving of their attempts:
\* a call that has returned returned the error of its own last response (nil
\* when it had none), a call returned success only when the service closed the
\* upload its way, and once both have returned at most one of them returned
\* success, the other one an error.
C24_ServiceDecides ==
    /\ \A c \in CallIds :
         CallReturned(c) =>
             /\ calls[c].ret.err = query(calls[c].resp)
             /\ (CallSucceeded(c) /\ calls[c].fn = "Complete") => upload = "completed"
             /\ (CallSucceeded(c) /\ calls[c].fn = "Abort") => upload = "aborted"
    /\ (\A c \in CallIds : CallReturned(c)) => \E c \in CallIds : calls[c].ret.err # Nil

\* Abort was refused once, Complete then went through, and the second
\* attempt of Abort found no upload: Complete returned success, Abort an error.
C24_Witness ==
    /\ \E c, d \in CallIds :
         /\ calls[c].fn = "Complete" /\ CallSucceeded(c)
         /\ calls[d].fn = "Abort" /\ CallReturned(d)
         /\ calls[d].attempt = 2
         /\ calls[d].ret.err = "NoSuchUpload"
    /\ upload = "completed"

====
